---- MODULE Spec2Model ----
(***************************************************************************)
(* Model of the description rotation scheduler of description_user_bot:    *)
(* the scheduler state (scheduler/state.rs), the scheduler loop and its    *)
(* decision cycle (scheduler/runner.rs), the bio update call with its rate *)
(* limiter (telegram/client.rs, telegram/rate_limiter.rs), the command     *)
(* handlers that share the state (commands/handler.rs) and process start   *)
(* (main.rs).                                                              *)
(*                                                                         *)
(* Indices are 0-based as in the source; a Vec element i is element i+1 of *)
(* the sequence that models the Vec.  Time is one clock of whole seconds.  *)
(***************************************************************************)
EXTENDS Integers, Sequences, FiniteSets, TLC

\* ------------------------------------------------------------------ bounds
\* Last second of the clock.
MaxTime == 2
\* Commands and TriggerUpdate messages the command layer issues in one behaviour.
MaxCmds == 1
\* Minimum interval of the rate limiter, in seconds (a setting of the program).
MinInterval == 1

\* ------------------------------------------------------- program constants
\* Duration the runner gives a custom description (runner.rs: 3600u64).
CustomDurationSecs == 3600
\* Capacity of the scheduler's channel (main.rs: mpsc::channel(32)).
ChannelCapacity == 32

\* Option values: None is the empty sequence, Some(x) a sequence of one.
None == <<>>
Some(x) == <<x>>
Unwrap(o) == o[1]
Runner == "runner"
CmdTasks == {"c1", "c2"}

\* ------------------------------------------------------------ descriptions
Desc(id, text, d) == [id |-> id, text |-> text, duration_secs |-> d]
DescA == Desc("a", "A", 1)
DescB == Desc("b", "B", 2)
DescC == Desc("c", "C", 1)
\* The descriptions file the program starts with.
InitialDescriptions == <<DescA, DescB, DescC>>
\* Contents an editor of the descriptions file leaves on disk; the empty list
\* is a file that fails validation.
FileChoices == {InitialDescriptions, <<DescA, DescB>>, <<>>}

\* Seconds a flood wait of the server asks for.
FloodWaits == {1}
\* Texts of the set command ("" is rejected by validation).
SetTexts == {"T1", ""}
\* Targets of the goto command: an id, or a 1-based position.
GotoTargets == {[id |-> "c", num |-> 0], [id |-> "", num |-> 1]}
\* Ids of the delete command.
DeleteIds == {"a", "c", "zz"}

\* DescriptionConfig::len
len(cfg) == Len(cfg)
\* DescriptionConfig::is_empty
is_empty(cfg) == Len(cfg) = 0
\* DescriptionConfig::get: None when the index is out of range.
get(cfg, i) == IF i < Len(cfg) THEN Some(cfg[i + 1]) ELSE None
\* Iterator::position on the id: the first 0-based position, or None.
position(cfg, id) ==
    IF \E k \in 1..Len(cfg) : cfg[k].id = id
    THEN Some((CHOOSE k \in 1..Len(cfg) :
                   cfg[k].id = id /\ \A j \in 1..(k - 1) : cfg[j].id # id) - 1)
    ELSE None
\* Vec::remove at a 0-based position.
remove(cfg, i) == [k \in 1..(Len(cfg) - 1) |-> IF k <= i THEN cfg[k] ELSE cfg[k + 1]]
\* A rollback that puts the removed description at the end of the list.
insert_last(cfg, i, d) == Append(cfg, d)
\* Vec::insert at a 0-based position.
insert(cfg, i, d) ==
    [k \in 1..(Len(cfg) + 1) |->
        IF k <= i THEN cfg[k] ELSE IF k = i + 1 THEN d ELSE cfg[k - 1]]
\* DescriptionConfig::validate: non-empty, unique ids, non-empty texts,
\* positive durations (the length limit is not reached by the texts used).
validate(cfg) ==
    /\ Len(cfg) > 0
    /\ \A j, k \in 1..Len(cfg) : j # k => cfg[j].id # cfg[k].id
    /\ \A k \in 1..Len(cfg) : cfg[k].text # "" /\ cfg[k].duration_secs > 0
\* validate_description_text: of the texts used only the empty one fails.
validate_description_text(text) == text # ""

\* --------------------------------------------------------- scheduler state
\* PersistentState::default
PersistentDefault ==
    [current_index |-> 0, is_paused |-> FALSE,
     expires_at_unix |-> None, custom_description |-> None]
\* A load that never finds the file.
load_default(f) == PersistentDefault
\* serde_json::from_str::<PersistentState>: the content has a value for
\* every field that must be there, current_index being a usize.
Parses(content) == content.current_index \in Nat
\* A load that takes whatever content is there.
load_unchecked(f) == IF f = None THEN PersistentDefault ELSE Unwrap(f)
\* PersistentState::load: the file's value; the default when the file cannot
\* be read (f = None: it is missing or unreadable) or does not parse.
load(f) ==
    IF f = None THEN PersistentDefault
    ELSE IF Parses(Unwrap(f)) THEN Unwrap(f)
    ELSE PersistentDefault
\* SchedulerState::from_persistent
from_persistent(p) ==
    [current_index |-> p.current_index,
     is_paused |-> p.is_paused,
     custom_description |-> p.custom_description,
     expires_at_unix |-> p.expires_at_unix,
     current_duration_secs |-> None,
     skip_current |-> FALSE]
\* A conversion that leaves the custom description out.
to_persistent_bare(s) ==
    [current_index |-> s.current_index,
     is_paused |-> s.is_paused,
     expires_at_unix |-> s.expires_at_unix,
     custom_description |-> None]
\* SchedulerState::to_persistent
to_persistent(s) ==
    [current_index |-> s.current_index,
     is_paused |-> s.is_paused,
     expires_at_unix |-> s.expires_at_unix,
     custom_description |-> s.custom_description]
\* An expiry test that ignores the deadline.
is_expired_always(s, t) == TRUE
\* An expiry test that waits for the deadline to be behind.
is_expired_late(s, t) ==
    IF s.expires_at_unix = None THEN TRUE ELSE t > Unwrap(s.expires_at_unix)
\* SchedulerState::is_expired at time t.
is_expired(s, t) ==
    IF s.expires_at_unix = None THEN TRUE ELSE t >= Unwrap(s.expires_at_unix)
\* SchedulerState::has_deadline
has_deadline(s) == s.expires_at_unix # None
\* An advance that stops at the last index.
advance_clamping(s, total_count) ==
    IF total_count = 0 THEN s
    ELSE IF s.current_index + 1 >= total_count THEN s
    ELSE [s EXCEPT !.current_index = s.current_index + 1]
\* SchedulerState::advance
advance(s, total_count) ==
    IF total_count = 0 THEN s
    ELSE [s EXCEPT !.current_index = (s.current_index + 1) % total_count]
\* SchedulerState::set_deadline at time t.
set_deadline(s, duration_secs, t) ==
    [s EXCEPT !.expires_at_unix = Some(t + duration_secs),
              !.current_duration_secs = Some(duration_secs)]
\* SchedulerState::clear_deadline
clear_deadline(s) ==
    [s EXCEPT !.expires_at_unix = None, !.current_duration_secs = None]
\* A set_index that leaves the deadline running.
set_index_keeping(s, index) == [s EXCEPT !.current_index = index]
\* SchedulerState::set_index
set_index(s, index) == clear_deadline([s EXCEPT !.current_index = index])
\* SchedulerState::clear_custom
clear_custom(s) == [s EXCEPT !.custom_description = None]

\* ------------------------------------------------------------------- state
VARIABLES
    state,          \* the shared SchedulerState (Arc<RwLock<SchedulerState>>)
    file,           \* state.json: None when missing, else Some(PersistentState)
    config,         \* the shared DescriptionConfig.descriptions
    cfgFile,        \* the descriptions file on disk
    now,            \* the clock, in seconds (now_unix, Instant::now)
    inbox,          \* the scheduler's mpsc channel
    rpc,            \* where the scheduler task is in run / tick / update_bio
    cand,           \* tick's locals: what step 2 decided to apply
    wake,           \* the time a sleep of the scheduler task ends
    stateW, stateR, \* holders of the write / read side of the state lock
    cfgW, cfgR,     \* holders of the write / read side of the config lock
    tasks,          \* the command tasks: where each is in its handler
    ncmds,          \* commands issued so far
    bio,            \* the live profile text (ProfileState.current_bio)
    last_operation, \* RateLimiter.last_operation
    limHeld,        \* whether the limiter's mutex is held
    outcome,        \* how the last finished cycle ended (what tick logged)
    fresh,          \* no update was committed since the process started
    restarted,      \* the process was started again at least once
    synced,         \* the save of the last commit succeeded
    sentInCall,     \* Shutdown was sent while update_bio was under way
    expected,       \* what the last skip, goto or set makes the next update
    cycleExpected,  \* expected as the cycle under way found it at step 2
    callers,        \* other callers of the rate limiter: where each is
    acquired        \* when wait_and_acquire last completed (None after reset)

vars == <<state, file, config, cfgFile, now, inbox, rpc, cand, wake,
          stateW, stateR, cfgW, cfgR, tasks, ncmds, bio,
          last_operation, limHeld, outcome, fresh, restarted, synced,
          sentInCall, expected, cycleExpected, callers, acquired>>

\* The locals of tick outside a cycle.
NoCand ==
    [go |-> FALSE, text |-> "", duration_secs |-> 0,
     should_advance |-> FALSE, has_custom |-> FALSE,
     snap_index |-> 0, snap_config |-> <<>>]
IdleTask == [pc |-> "idle", text |-> "", idx |-> 0, new_config |-> <<>>]
\* Another task that calls the rate limiter beside the scheduler, in no call
\* at first.
Callers == {"u1"}
IdleCaller ==
    [pc |-> "idle", wake |-> 0, waited |-> 0, allowed |-> TRUE, remaining |-> 0]

\* main: the state is built from the persisted file, the config from the
\* descriptions file; nothing is locked, no task runs.
Init ==
    /\ file = None
    /\ cfgFile = InitialDescriptions
    /\ state = from_persistent(load(file))
    /\ config = cfgFile
    /\ now = 0
    /\ inbox = <<>>
    /\ rpc = "idle"
    /\ cand = NoCand
    /\ wake = 0
    /\ stateW = None /\ stateR = {}
    /\ cfgW = None /\ cfgR = {}
    /\ tasks = [c \in CmdTasks |-> IdleTask]
    /\ ncmds = 0
    /\ bio = None
    /\ last_operation = None
    /\ limHeld = FALSE
    /\ outcome = "none"
    /\ fresh = TRUE
    /\ restarted = FALSE
    /\ synced = TRUE
    /\ sentInCall = FALSE
    /\ expected = None
    /\ cycleExpected = None
    /\ callers = [u \in Callers |-> IdleCaller]
    /\ acquired = None

\* RwLock: a reader enters when no writer holds the lock, a writer when
\* nobody holds it.
CanRead(w) == w = None
CanWrite(w, r) == w = None /\ r = {}

\* ------------------------------------------------------- the decision cycle
\* A decision that applies the current description also on a natural expiry.
Decide_current(s, cfg, t) ==
    IF s.is_paused \/ ~is_expired(s, t) THEN NoCand
    ELSE IF is_empty(cfg) THEN NoCand
    ELSE IF s.custom_description # None
    THEN [go |-> TRUE, text |-> Unwrap(s.custom_description),
          duration_secs |-> CustomDurationSecs,
          should_advance |-> FALSE, has_custom |-> TRUE,
          snap_index |-> s.current_index, snap_config |-> cfg]
    ELSE LET desc == IF get(cfg, s.current_index) # None
                     THEN get(cfg, s.current_index) ELSE get(cfg, 0)
         IN  [go |-> TRUE, text |-> Unwrap(desc).text,
              duration_secs |-> Unwrap(desc).duration_secs,
              should_advance |-> has_deadline(s), has_custom |-> FALSE,
              snap_index |-> s.current_index, snap_config |-> cfg]

\* A decision that always moves to the next description.
Decide_advancing(s, cfg, t) ==
    IF s.is_paused \/ ~is_expired(s, t) THEN NoCand
    ELSE IF is_empty(cfg) THEN NoCand
    ELSE IF s.custom_description # None
    THEN [go |-> TRUE, text |-> Unwrap(s.custom_description),
          duration_secs |-> CustomDurationSecs,
          should_advance |-> FALSE, has_custom |-> TRUE,
          snap_index |-> s.current_index, snap_config |-> cfg]
    ELSE LET next_index == (s.current_index + 1) % len(cfg)
             desc == IF get(cfg, next_index) # None
                     THEN get(cfg, next_index) ELSE get(cfg, 0)
         IN  [go |-> TRUE, text |-> Unwrap(desc).text,
              duration_secs |-> Unwrap(desc).duration_secs,
              should_advance |-> TRUE, has_custom |-> FALSE,
              snap_index |-> s.current_index, snap_config |-> cfg]

\* A decision without the fallback to the first description.
Decide_strict(s, cfg, t) ==
    IF s.is_paused \/ ~is_expired(s, t) THEN NoCand
    ELSE IF is_empty(cfg) THEN NoCand
    ELSE IF s.custom_description # None
    THEN [go |-> TRUE, text |-> Unwrap(s.custom_description),
          duration_secs |-> CustomDurationSecs,
          should_advance |-> FALSE, has_custom |-> TRUE,
          snap_index |-> s.current_index, snap_config |-> cfg]
    ELSE LET should_advance == has_deadline(s)
             next_index == IF should_advance
                           THEN (s.current_index + 1) % len(cfg)
                           ELSE s.current_index
             desc == get(cfg, next_index)
         IN  IF desc = None THEN NoCand
             ELSE [go |-> TRUE, text |-> Unwrap(desc).text,
                   duration_secs |-> Unwrap(desc).duration_secs,
                   should_advance |-> should_advance, has_custom |-> FALSE,
                   snap_index |-> s.current_index, snap_config |-> cfg]

\* A decision that looks at the custom description before the list.
Decide_custom_first(s, cfg, t) ==
    IF s.is_paused \/ ~is_expired(s, t) THEN NoCand
    ELSE IF s.custom_description # None
    THEN [go |-> TRUE, text |-> Unwrap(s.custom_description),
          duration_secs |-> CustomDurationSecs,
          should_advance |-> FALSE, has_custom |-> TRUE,
          snap_index |-> s.current_index, snap_config |-> cfg]
    ELSE IF is_empty(cfg) THEN NoCand
    ELSE LET should_advance == has_deadline(s)
             next_index == IF should_advance
                           THEN (s.current_index + 1) % len(cfg)
                           ELSE s.current_index
             desc == IF get(cfg, next_index) # None
                     THEN get(cfg, next_index) ELSE get(cfg, 0)
         IN  [go |-> TRUE, text |-> Unwrap(desc).text,
              duration_secs |-> Unwrap(desc).duration_secs,
              should_advance |-> should_advance, has_custom |-> FALSE,
              snap_index |-> s.current_index, snap_config |-> cfg]

\* tick, step 2: what to apply, decided under the read locks from the state s,
\* the descriptions cfg and the time t.  go is FALSE where tick returns.
Decide(s, cfg, t) ==
    IF s.is_paused \/ ~is_expired(s, t) THEN NoCand
    ELSE IF is_empty(cfg) THEN NoCand
    ELSE IF s.custom_description # None
    THEN [go |-> TRUE, text |-> Unwrap(s.custom_description),
          duration_secs |-> CustomDurationSecs,
          should_advance |-> FALSE, has_custom |-> TRUE,
          snap_index |-> s.current_index, snap_config |-> cfg]
    ELSE LET should_advance == has_deadline(s)
             next_index == IF should_advance
                           THEN (s.current_index + 1) % len(cfg)
                           ELSE s.current_index
             desc == IF get(cfg, next_index) # None
                     THEN get(cfg, next_index) ELSE get(cfg, 0)
         IN  IF desc = None THEN NoCand
             ELSE [go |-> TRUE, text |-> Unwrap(desc).text,
                   duration_secs |-> Unwrap(desc).duration_secs,
                   should_advance |-> should_advance, has_custom |-> FALSE,
                   snap_index |-> s.current_index, snap_config |-> cfg]

\* A commit that advances whenever no custom description was pending.
Commit_advancing(s, cfg, c, t) ==
    LET s1 == IF c.has_custom THEN [s EXCEPT !.custom_description = None]
              ELSE advance(s, len(cfg))
    IN  set_deadline(s1, c.duration_secs, t)

\* A commit that leaves the custom description pending.
Commit_keeping(s, cfg, c, t) ==
    LET s1 == IF c.has_custom THEN s
              ELSE IF c.should_advance THEN advance(s, len(cfg))
              ELSE s
    IN  set_deadline(s1, c.duration_secs, t)

\* A commit that is dropped when the state was paused meanwhile.
Commit_unless_paused(s, cfg, c, t) ==
    LET s1 == IF c.has_custom THEN [s EXCEPT !.custom_description = None]
              ELSE IF c.should_advance THEN advance(s, len(cfg))
              ELSE s
    IN  IF s.is_paused THEN s ELSE set_deadline(s1, c.duration_secs, t)

\* tick, step 4: the state after a successful update, from the state s and the
\* descriptions cfg at commit time, the decision c and the time t.
Commit(s, cfg, c, t) ==
    LET s1 == IF c.has_custom THEN [s EXCEPT !.custom_description = None]
              ELSE IF c.should_advance THEN advance(s, len(cfg))
              ELSE s
    IN  set_deadline(s1, c.duration_secs, t)

\* A failure arm that drops the deadline.
OnFailure_clearing(s) == [s EXCEPT !.expires_at_unix = None]

\* tick, the Err arms of the match on update_bio's result: the state after a
\* failed update.
OnFailure(s) == s

lockVars == <<stateW, stateR, cfgW, cfgR>>
cmdVars == <<tasks, ncmds>>
limVars == <<last_operation, limHeld>>
diskVars == <<file, cfgFile>>
ghostVars == <<outcome, fresh, restarted, synced, sentInCall>>
expectVars == <<expected, cycleExpected>>
apiVars == <<callers, acquired>>

\* The process runs (it was neither killed nor has its scheduler loop ended).
Alive == rpc \notin {"dead", "stopped"}

\* run: the interval timer fires and tick is called.
RunTick ==
    /\ rpc = "idle"
    /\ rpc' = "check"
    /\ outcome' = "none"
    /\ UNCHANGED <<state, config, now, inbox, cand, wake, bio>>
    /\ UNCHANGED <<lockVars, cmdVars, limVars, diskVars, fresh, restarted, synced, sentInCall>>
    /\ UNCHANGED apiVars
    /\ UNCHANGED expectVars

\* A loop that takes TriggerUpdate, and starts a cycle, while a cycle is under
\* way.
RunRecv_overlapping ==
    /\ rpc \notin {"dead", "stopped"}
    /\ inbox # <<>>
    /\ Head(inbox) = "TriggerUpdate" \/ rpc = "idle"
    /\ inbox' = Tail(inbox)
    /\ rpc' = IF Head(inbox) = "Shutdown" THEN "stopped" ELSE "check"
    /\ outcome' = IF Head(inbox) = "Shutdown" THEN outcome ELSE "none"
    /\ UNCHANGED <<state, config, now, cand, wake, bio>>
    /\ UNCHANGED <<lockVars, cmdVars, limVars, diskVars, fresh, restarted, synced, sentInCall>>
    /\ UNCHANGED apiVars
    /\ UNCHANGED expectVars

\* A loop that takes Shutdown while a cycle is under way.
RunRecv_interrupting ==
    /\ rpc \notin {"dead", "stopped"}
    /\ inbox # <<>>
    /\ Head(inbox) = "Shutdown" \/ rpc = "idle"
    /\ inbox' = Tail(inbox)
    /\ rpc' = IF Head(inbox) = "Shutdown" THEN "stopped" ELSE "check"
    /\ outcome' = IF Head(inbox) = "Shutdown" THEN outcome ELSE "none"
    /\ UNCHANGED <<state, config, now, cand, wake, bio>>
    /\ UNCHANGED <<lockVars, cmdVars, limVars, diskVars, fresh, restarted, synced, sentInCall>>
    /\ UNCHANGED apiVars
    /\ UNCHANGED expectVars

\* run: a message is received: TriggerUpdate calls tick, Shutdown ends the loop.
RunRecv ==
    /\ rpc = "idle"
    /\ inbox # <<>>
    /\ inbox' = Tail(inbox)
    /\ rpc' = IF Head(inbox) = "Shutdown" THEN "stopped" ELSE "check"
    /\ outcome' = IF Head(inbox) = "Shutdown" THEN outcome ELSE "none"
    /\ UNCHANGED <<state, config, now, cand, wake, bio>>
    /\ UNCHANGED <<lockVars, cmdVars, limVars, diskVars, fresh, restarted, synced, sentInCall>>
    /\ UNCHANGED apiVars
    /\ UNCHANGED expectVars

\* tick, step 1: the quick check under the state read lock.
TickCheck ==
    /\ rpc = "check"
    /\ CanRead(stateW)
    /\ rpc' = IF state.is_paused \/ ~is_expired(state, now) THEN "idle" ELSE "snap"
    /\ outcome' = IF rpc' = "idle" THEN "skipped" ELSE outcome
    /\ UNCHANGED <<state, config, now, inbox, cand, wake, bio>>
    /\ UNCHANGED <<lockVars, cmdVars, limVars, diskVars, fresh, restarted, synced, sentInCall>>
    /\ UNCHANGED apiVars
    /\ UNCHANGED expectVars

\* tick, step 2: self.state.read().await
TickLockState ==
    /\ rpc = "snap"
    /\ CanRead(stateW)
    /\ stateR' = stateR \cup {Runner}
    /\ rpc' = "decide"
    /\ UNCHANGED <<state, config, now, inbox, cand, wake, bio, stateW, cfgW, cfgR>>
    /\ UNCHANGED <<cmdVars, limVars, diskVars, ghostVars>>
    /\ UNCHANGED apiVars
    /\ UNCHANGED expectVars

\* A step 2 that keeps the state read guard after the decision.
TickDecide_holding ==
    /\ rpc = "decide"
    /\ CanRead(cfgW)
    /\ cand' = Decide(state, config, now)
    /\ rpc' = IF cand'.go THEN "auth" ELSE "idle"
    /\ stateR' = IF cand'.go THEN stateR ELSE stateR \ {Runner}
    /\ outcome' = IF cand'.go THEN outcome
                  ELSE IF state.is_paused \/ ~is_expired(state, now) THEN "skipped"
                  ELSE "empty"
    /\ UNCHANGED <<state, config, now, inbox, wake, bio, stateW, cfgW, cfgR>>
    /\ UNCHANGED <<cmdVars, limVars, diskVars, fresh, restarted, synced, sentInCall>>
    /\ UNCHANGED apiVars
    /\ cycleExpected' = (IF cand'.go THEN expected ELSE None)
    /\ UNCHANGED expected

\* tick, step 2: self.config.read().await, the decision, and the end of the
\* block that drops both guards.
TickDecide ==
    /\ rpc = "decide"
    /\ CanRead(cfgW)
    /\ cand' = Decide(state, config, now)
    /\ stateR' = stateR \ {Runner}
    /\ rpc' = IF cand'.go THEN "auth" ELSE "idle"
    /\ outcome' = IF cand'.go THEN outcome
                  ELSE IF state.is_paused \/ ~is_expired(state, now) THEN "skipped"
                  ELSE "empty"
    /\ UNCHANGED <<state, config, now, inbox, wake, bio, stateW, cfgW, cfgR>>
    /\ UNCHANGED <<cmdVars, limVars, diskVars, fresh, restarted, synced, sentInCall>>
    /\ UNCHANGED apiVars
    /\ cycleExpected' = (IF cand'.go THEN expected ELSE None)
    /\ UNCHANGED expected

\* update_bio: the authorization check; when it fails the Err arm of tick runs.
UpdateBioAuth(authorized) ==
    /\ rpc = "auth"
    /\ IF authorized
       THEN /\ rpc' = "acquire"
            /\ UNCHANGED <<state, cand, outcome>>
       ELSE /\ rpc' = "idle"
            /\ state' = OnFailure(state)
            /\ cand' = NoCand
            /\ outcome' = "NotAuthorized"
    /\ UNCHANGED <<config, now, inbox, wake, bio>>
    /\ UNCHANGED <<lockVars, cmdVars, limVars, diskVars, fresh, restarted, synced, sentInCall>>
    /\ UNCHANGED apiVars
    /\ UNCHANGED expectVars

\* A wait that is the whole interval whenever a call is recorded.
wait_duration_full(last, t) == IF last # None THEN MinInterval ELSE 0
\* RateLimiter::wait_and_acquire: the time to wait at time t.
wait_duration(last, t) ==
    IF last # None
    THEN IF t - Unwrap(last) < MinInterval
         THEN MinInterval - (t - Unwrap(last))
         ELSE 0
    ELSE 0

\* wait_and_acquire: the mutex is taken; with nothing to wait for the call is
\* recorded at once, else the task sleeps with the mutex held.
UpdateBioAcquire ==
    /\ rpc = "acquire"
    /\ ~limHeld
    /\ LET w == wait_duration(last_operation, now)
       IN  IF w = 0
           THEN /\ last_operation' = Some(now)
                /\ acquired' = Some(now)
                /\ rpc' = "invoke"
                /\ UNCHANGED <<wake, limHeld>>
           ELSE /\ limHeld' = TRUE
                /\ wake' = now + w
                /\ rpc' = "sleep"
                /\ UNCHANGED <<last_operation, acquired>>
    /\ UNCHANGED <<state, config, now, inbox, cand, bio>>
    /\ UNCHANGED <<lockVars, cmdVars, diskVars, ghostVars>>
    /\ UNCHANGED callers
    /\ UNCHANGED expectVars

\* wait_and_acquire: the sleep ends, the call is recorded, the mutex released.
UpdateBioWake ==
    /\ rpc = "sleep"
    /\ now >= wake
    /\ last_operation' = Some(now)
    /\ acquired' = Some(now)
    /\ limHeld' = FALSE
    /\ rpc' = "invoke"
    /\ UNCHANGED <<state, config, now, inbox, cand, wake, bio>>
    /\ UNCHANGED <<lockVars, cmdVars, diskVars, ghostVars>>
    /\ UNCHANGED callers
    /\ UNCHANGED expectVars

\* update_bio: the request succeeds: the text is live.
InvokeOk ==
    /\ rpc = "invoke"
    /\ bio' = Some(cand.text)
    /\ rpc' = "commit"
    /\ UNCHANGED <<state, config, now, inbox, cand, wake>>
    /\ UNCHANGED <<lockVars, cmdVars, limVars, diskVars, ghostVars>>
    /\ UNCHANGED apiVars
    /\ expected' = (IF /\ expected # None
                       /\ ~Unwrap(expected).applied
                       /\ (Unwrap(expected).by = "skip" \/ cycleExpected = expected)
                    THEN Some([Unwrap(expected) EXCEPT !.applied = TRUE])
                    ELSE expected)
    /\ cycleExpected' = None

\* update_bio: the server answers with a flood wait: handle_flood_wait sleeps.
InvokeFloodWait(seconds) ==
    /\ rpc = "invoke"
    /\ seconds \in FloodWaits
    /\ wake' = now + seconds
    /\ rpc' = "flood"
    /\ UNCHANGED <<state, config, now, inbox, cand, bio>>
    /\ UNCHANGED <<lockVars, cmdVars, limVars, diskVars, ghostVars>>
    /\ UNCHANGED apiVars
    /\ UNCHANGED expectVars

\* The failures of the request that tick sees at once.
InvokeErrors == {"RateLimited", "Other"}

\* An Err arm that leaves the loop.
InvokeErr_stopping(e) ==
    /\ rpc = "invoke"
    /\ e \in InvokeErrors
    /\ rpc' = "stopped"
    /\ state' = OnFailure(state)
    /\ cand' = NoCand
    /\ outcome' = e
    /\ UNCHANGED <<config, now, inbox, wake, bio>>
    /\ UNCHANGED <<lockVars, cmdVars, limVars, diskVars, fresh, restarted, synced, sentInCall>>
    /\ UNCHANGED apiVars
    /\ UNCHANGED expectVars

\* update_bio: the request fails with error e; the Err arm of tick runs.
InvokeErr(e) ==
    /\ rpc = "invoke"
    /\ e \in InvokeErrors
    /\ rpc' = "idle"
    /\ state' = OnFailure(state)
    /\ cand' = NoCand
    /\ outcome' = e
    /\ UNCHANGED <<config, now, inbox, wake, bio>>
    /\ UNCHANGED <<lockVars, cmdVars, limVars, diskVars, fresh, restarted, synced, sentInCall>>
    /\ UNCHANGED apiVars
    /\ UNCHANGED expectVars

\* A handle_flood_wait that sleeps and returns without marking the limiter.
FloodWake_unmarked ==
    /\ rpc = "flood"
    /\ now >= wake
    /\ ~limHeld
    /\ UNCHANGED last_operation
    /\ rpc' = "idle"
    /\ state' = OnFailure(state)
    /\ cand' = NoCand
    /\ outcome' = "FloodWait"
    /\ UNCHANGED <<config, now, inbox, wake, bio, limHeld>>
    /\ UNCHANGED <<lockVars, cmdVars, diskVars, fresh, restarted, synced, sentInCall>>
    /\ UNCHANGED apiVars
    /\ UNCHANGED expectVars

\* handle_flood_wait: the sleep ends, the limiter is marked used, update_bio
\* returns FloodWait and the Err arm of tick runs.
FloodWake ==
    /\ rpc = "flood"
    /\ now >= wake
    /\ ~limHeld
    /\ last_operation' = Some(now)
    /\ rpc' = "idle"
    /\ state' = OnFailure(state)
    /\ cand' = NoCand
    /\ outcome' = "FloodWait"
    /\ UNCHANGED <<config, now, inbox, wake, bio, limHeld>>
    /\ UNCHANGED <<lockVars, cmdVars, diskVars, fresh, restarted, synced, sentInCall>>
    /\ UNCHANGED apiVars
    /\ UNCHANGED expectVars

\* tick, step 4: self.state.write().await
TickCommitLock ==
    /\ rpc = "commit"
    /\ CanWrite(stateW, stateR)
    /\ stateW' = Some(Runner)
    /\ rpc' = "commit2"
    /\ UNCHANGED <<state, config, now, inbox, cand, wake, bio, stateR, cfgW, cfgR>>
    /\ UNCHANGED <<cmdVars, limVars, diskVars, ghostVars>>
    /\ UNCHANGED apiVars
    /\ UNCHANGED expectVars

\* A save whose failure leaves the new content on disk all the same.
save_always(f, p, ok) == Some(p)
\* PersistentState::save: the file after a save of p that succeeds or fails.
save(f, p, ok) == IF ok THEN Some(p) ELSE f

\* tick, step 4: self.config.read().await, the commit, the save (saveOk: the
\* write succeeds) and the end of the arm that drops both guards.
TickCommit(saveOk) ==
    /\ rpc = "commit2"
    /\ CanRead(cfgW)
    /\ state' = Commit(state, config, cand, now)
    /\ file' = save(file, to_persistent(state'), saveOk)
    /\ stateW' = None
    /\ rpc' = "idle"
    /\ cand' = NoCand
    /\ outcome' = "updated"
    /\ fresh' = FALSE
    /\ synced' = saveOk
    /\ UNCHANGED <<config, cfgFile, now, inbox, wake, bio, stateR, cfgW, cfgR>>
    /\ UNCHANGED <<cmdVars, limVars, restarted, sentInCall>>
    /\ UNCHANGED apiVars
    /\ UNCHANGED expectVars

\* ------------------------------------------------------------- environment
\* A second passes.
ClockTick ==
    /\ now < MaxTime
    /\ now' = now + 1
    /\ UNCHANGED <<state, config, inbox, rpc, cand, wake, bio>>
    /\ UNCHANGED <<lockVars, cmdVars, limVars, diskVars, ghostVars>>
    /\ UNCHANGED apiVars
    /\ UNCHANGED expectVars

\* The command layer sends a TriggerUpdate message to the scheduler.
SendTrigger ==
    /\ Alive
    /\ ncmds < MaxCmds
    /\ Len(inbox) < ChannelCapacity
    /\ ncmds' = ncmds + 1
    /\ inbox' = Append(inbox, "TriggerUpdate")
    /\ UNCHANGED <<state, config, now, rpc, cand, wake, bio, tasks>>
    /\ UNCHANGED <<lockVars, limVars, diskVars, ghostVars>>
    /\ UNCHANGED apiVars
    /\ UNCHANGED expectVars

\* main: Ctrl+C: Shutdown is sent to the scheduler.
CtrlC ==
    /\ Alive
    /\ Len(inbox) < ChannelCapacity
    /\ \A k \in 1..Len(inbox) : inbox[k] # "Shutdown"
    /\ inbox' = Append(inbox, "Shutdown")
    /\ sentInCall' = (rpc \in {"auth", "acquire", "sleep", "invoke", "flood"})
    /\ UNCHANGED <<state, config, now, rpc, cand, wake, bio>>
    /\ UNCHANGED <<lockVars, cmdVars, limVars, diskVars>>
    /\ UNCHANGED <<outcome, fresh, restarted, synced>>
    /\ UNCHANGED apiVars
    /\ UNCHANGED expectVars

\* The descriptions file is edited on disk.
EditFile(c) ==
    /\ c \in FileChoices
    /\ c # cfgFile
    /\ cfgFile' = c
    /\ UNCHANGED <<state, file, config, now, inbox, rpc, cand, wake, bio>>
    /\ UNCHANGED <<lockVars, cmdVars, limVars, ghostVars>>
    /\ UNCHANGED apiVars
    /\ UNCHANGED expectVars

\* The process ends (it exits after the loop, or is killed at any point):
\* all that is in memory is lost.
Kill ==
    /\ rpc # "dead"
    /\ rpc' = "dead"
    /\ outcome' = "none"
    /\ state' = from_persistent(PersistentDefault)
    /\ config' = <<>>
    /\ inbox' = <<>>
    /\ cand' = NoCand
    /\ wake' = 0
    /\ stateW' = None /\ stateR' = {} /\ cfgW' = None /\ cfgR' = {}
    /\ tasks' = [c \in CmdTasks |-> IdleTask]
    /\ last_operation' = None
    /\ limHeld' = FALSE
    /\ sentInCall' = FALSE
    /\ UNCHANGED <<file, cfgFile, now, ncmds, bio, fresh, restarted, synced>>
    /\ acquired' = None
    /\ UNCHANGED callers
    /\ expected' = None
    /\ cycleExpected' = None

\* main: the process starts: the descriptions file is loaded and validated,
\* the state is built from the persisted file, the scheduler is spawned.
Start ==
    /\ rpc = "dead"
    /\ validate(cfgFile)
    /\ config' = cfgFile
    /\ state' = from_persistent(load(file))
    /\ rpc' = "idle"
    /\ fresh' = TRUE
    /\ restarted' = TRUE
    /\ UNCHANGED <<file, cfgFile, now, inbox, cand, wake, bio, outcome, synced,
                   sentInCall>>
    /\ UNCHANGED <<lockVars, cmdVars, limVars>>
    /\ UNCHANGED apiVars
    /\ UNCHANGED expectVars

\* ---------------------------------------------------------------- commands
\* The tasks are interchangeable: a new command runs on the first free one.
FreeTask == IF tasks["c1"].pc = "idle" THEN "c1" ELSE "c2"
\* A command task is free to take the next command.
CanIssue(c) ==
    /\ Alive
    /\ c \in CmdTasks
    /\ tasks[c].pc = "idle"
    /\ c = FreeTask
    /\ ncmds < MaxCmds

At(c, pc) == Alive /\ c \in CmdTasks /\ tasks[c].pc = pc
Goes(c, pc) == tasks' = [tasks EXCEPT ![c].pc = pc]
Returns(c) == tasks' = [tasks EXCEPT ![c] = IdleTask]

\* What a successful skip makes the next update: the description after the
\* current one, when the description at the index is the live one and no
\* custom description is pending.
SkipExpects(s, cfg, live) ==
    IF /\ s.custom_description = None
       /\ s.current_index < Len(cfg)
       /\ live = Some(cfg[s.current_index + 1].text)
    THEN Some([by |-> "skip", applied |-> FALSE,
               text |-> cfg[((s.current_index + 1) % Len(cfg)) + 1].text])
    ELSE None
\* What a completed goto to idx makes the next update: the description at idx,
\* when no custom description is pending.
GotoExpects(s, cfg, idx) ==
    IF s.custom_description = None /\ idx < Len(cfg)
    THEN Some([by |-> "goto", applied |-> FALSE, text |-> cfg[idx + 1].text])
    ELSE None

\* handle_pause: its CommandResult.success, and the state it leaves.
PauseOk(s) == ~s.is_paused
PauseState_toggling(s) == [s EXCEPT !.is_paused = ~s.is_paused]
PauseState(s) == IF s.is_paused THEN s ELSE [s EXCEPT !.is_paused = TRUE]
\* handle_resume
ResumeOk(s) == s.is_paused
ResumeState(s) == IF ~s.is_paused THEN s ELSE [s EXCEPT !.is_paused = FALSE]
\* handle_skip
SkipOk(s) == ~s.is_paused
SkipState(s) == IF s.is_paused THEN s ELSE [s EXCEPT !.skip_current = TRUE]

\* handle_pause, under the state write lock.
handle_pause(c) ==
    /\ CanIssue(c)
    /\ CanWrite(stateW, stateR)
    /\ state' = PauseState(state)
    /\ ncmds' = ncmds + 1
    /\ UNCHANGED <<config, now, inbox, rpc, cand, wake, bio, tasks>>
    /\ UNCHANGED <<lockVars, limVars, diskVars, ghostVars>>
    /\ UNCHANGED apiVars
    /\ expected' = (IF PauseOk(state) THEN None ELSE expected)
    /\ UNCHANGED cycleExpected

\* handle_resume, under the state write lock.
handle_resume(c) ==
    /\ CanIssue(c)
    /\ CanWrite(stateW, stateR)
    /\ state' = ResumeState(state)
    /\ ncmds' = ncmds + 1
    /\ UNCHANGED <<config, now, inbox, rpc, cand, wake, bio, tasks>>
    /\ UNCHANGED <<lockVars, limVars, diskVars, ghostVars>>
    /\ UNCHANGED apiVars
    /\ expected' = (IF ResumeOk(state) THEN None ELSE expected)
    /\ UNCHANGED cycleExpected

\* handle_skip, under the state write lock.
handle_skip(c) ==
    /\ CanIssue(c)
    /\ CanWrite(stateW, stateR)
    /\ state' = SkipState(state)
    /\ ncmds' = ncmds + 1
    /\ UNCHANGED <<config, now, inbox, rpc, cand, wake, bio, tasks>>
    /\ UNCHANGED <<lockVars, limVars, diskVars, ghostVars>>
    /\ UNCHANGED apiVars
    /\ expected' = (IF SkipOk(state) THEN SkipExpects(state, config, bio) ELSE expected)
    /\ UNCHANGED cycleExpected

\* handle_goto: the index a target resolves to: the position of its id, else
\* its number as a 1-based position within the list.
GotoIndex(cfg, target) ==
    IF position(cfg, target.id) # None THEN position(cfg, target.id)
    ELSE IF target.id = "" /\ target.num > 0 /\ target.num <= len(cfg)
    THEN Some(target.num - 1)
    ELSE None

\* handle_goto: the target is resolved under the config read lock, which is
\* dropped; an unknown target is an error.
handle_goto_resolve(c, target) ==
    /\ CanIssue(c)
    /\ target \in GotoTargets
    /\ CanRead(cfgW)
    /\ ncmds' = ncmds + 1
    /\ IF GotoIndex(config, target) = None
       THEN UNCHANGED tasks
       ELSE tasks' = [tasks EXCEPT ![c].pc = "goto_write",
                                   ![c].idx = Unwrap(GotoIndex(config, target))]
    /\ UNCHANGED <<state, config, now, inbox, rpc, cand, wake, bio>>
    /\ UNCHANGED <<lockVars, limVars, diskVars, ghostVars>>
    /\ UNCHANGED apiVars
    /\ UNCHANGED expectVars

\* handle_goto: the state after the jump.
GotoState(s, idx) == [s EXCEPT !.current_index = idx, !.skip_current = TRUE]

\* handle_goto: the state write lock is taken and the index written.
handle_goto_write(c) ==
    /\ At(c, "goto_write")
    /\ CanWrite(stateW, stateR)
    /\ stateW' = Some(c)
    /\ state' = GotoState(state, tasks[c].idx)
    /\ Goes(c, "goto_read")
    /\ UNCHANGED <<config, now, inbox, rpc, cand, wake, bio, stateR, cfgW, cfgR>>
    /\ UNCHANGED <<ncmds, limVars, diskVars, ghostVars>>
    /\ UNCHANGED apiVars
    /\ expected' = None
    /\ UNCHANGED cycleExpected

\* handle_goto: the config read lock is taken again and descriptions[idx] is
\* indexed for the reply: a panic when idx is out of range, which unwinds
\* the task (its guards are dropped, no result is returned).
handle_goto_read(c) ==
    /\ At(c, "goto_read")
    /\ CanRead(cfgW)
    /\ stateW' = None
    /\ IF tasks[c].idx < Len(config) THEN Returns(c) ELSE Goes(c, "panicked")
    /\ UNCHANGED <<state, config, now, inbox, rpc, cand, wake, bio, stateR, cfgW, cfgR>>
    /\ UNCHANGED <<ncmds, limVars, diskVars, ghostVars>>
    /\ UNCHANGED apiVars
    /\ expected' = GotoExpects(state, config, tasks[c].idx)
    /\ UNCHANGED cycleExpected

\* handle_set: the text is validated under the config read lock.
handle_set_validate(c, text) ==
    /\ CanIssue(c)
    /\ text \in SetTexts
    /\ CanRead(cfgW)
    /\ ncmds' = ncmds + 1
    /\ IF validate_description_text(text)
       THEN tasks' = [tasks EXCEPT ![c].pc = "set_write", ![c].text = text]
       ELSE UNCHANGED tasks
    /\ UNCHANGED <<state, config, now, inbox, rpc, cand, wake, bio>>
    /\ UNCHANGED <<lockVars, limVars, diskVars, ghostVars>>
    /\ UNCHANGED apiVars
    /\ UNCHANGED expectVars

\* handle_set: the state after the custom description is set.
SetState(s, text) == [s EXCEPT !.custom_description = Some(text), !.skip_current = TRUE]

\* handle_set: the custom description is written under the state write lock.
handle_set_write(c) ==
    /\ At(c, "set_write")
    /\ CanWrite(stateW, stateR)
    /\ state' = SetState(state, tasks[c].text)
    /\ Returns(c)
    /\ UNCHANGED <<config, now, inbox, rpc, cand, wake, bio>>
    /\ UNCHANGED <<ncmds, lockVars, limVars, diskVars, ghostVars>>
    /\ UNCHANGED apiVars
    /\ expected' = Some([by |-> "set", applied |-> FALSE, text |-> tasks[c].text])
    /\ UNCHANGED cycleExpected

\* handle_delete: under the config write lock the description is removed and
\* the file saved (saveOk: the write succeeds; else the removal is rolled
\* back); the lock is dropped.
handle_delete_remove(c, id, saveOk) ==
    /\ CanIssue(c)
    /\ id \in DeleteIds
    /\ CanWrite(cfgW, cfgR)
    /\ ncmds' = ncmds + 1
    /\ IF position(config, id) = None
       THEN UNCHANGED <<tasks, config, cfgFile>>
       ELSE LET idx == Unwrap(position(config, id))
                removed == config[idx + 1]
            IN  IF saveOk
                THEN /\ config' = remove(config, idx)
                     /\ cfgFile' = config'
                     /\ tasks' = [tasks EXCEPT ![c].pc = "delete_write",
                                               ![c].idx = idx]
                ELSE /\ config' = insert(remove(config, idx), idx, removed)
                     /\ UNCHANGED <<tasks, cfgFile>>
    /\ UNCHANGED <<state, file, now, inbox, rpc, cand, wake, bio>>
    /\ UNCHANGED <<lockVars, limVars, ghostVars>>
    /\ UNCHANGED apiVars
    /\ expected' = (IF position(config, id) = None \/ ~saveOk THEN expected ELSE None)
    /\ UNCHANGED cycleExpected

\* handle_delete: self.scheduler_state.write().await
handle_delete_write(c) ==
    /\ At(c, "delete_write")
    /\ CanWrite(stateW, stateR)
    /\ stateW' = Some(c)
    /\ Goes(c, "delete_read")
    /\ UNCHANGED <<state, config, now, inbox, rpc, cand, wake, bio, stateR, cfgW, cfgR>>
    /\ UNCHANGED <<ncmds, limVars, diskVars, ghostVars>>
    /\ UNCHANGED apiVars
    /\ UNCHANGED expectVars

\* An adjustment that resets an index left out of range to 0.
DeleteAdjust_resetting(s, cfg, idx) ==
    IF is_empty(cfg) THEN [s EXCEPT !.current_index = 0]
    ELSE IF s.current_index >= len(cfg) THEN [s EXCEPT !.current_index = 0]
    ELSE IF s.current_index > idx THEN [s EXCEPT !.current_index = s.current_index - 1]
    ELSE s

\* handle_delete: the index after the description at idx was removed and cfg
\* is left.
DeleteAdjust(s, cfg, idx) ==
    IF is_empty(cfg) THEN [s EXCEPT !.current_index = 0]
    ELSE IF s.current_index >= len(cfg) THEN [s EXCEPT !.current_index = len(cfg) - 1]
    ELSE IF s.current_index > idx THEN [s EXCEPT !.current_index = s.current_index - 1]
    ELSE s

\* handle_delete: the config read lock is taken and the index adjusted.
handle_delete_adjust(c) ==
    /\ At(c, "delete_read")
    /\ CanRead(cfgW)
    /\ state' = DeleteAdjust(state, config, tasks[c].idx)
    /\ stateW' = None
    /\ Returns(c)
    /\ UNCHANGED <<config, now, inbox, rpc, cand, wake, bio, stateR, cfgW, cfgR>>
    /\ UNCHANGED <<ncmds, limVars, diskVars, ghostVars>>
    /\ UNCHANGED apiVars
    /\ expected' = None
    /\ UNCHANGED cycleExpected

\* Arguments of edit and of duration.
EditIds == {"a", "zz"}
EditTexts == {"A2", ""}
DurationValues == {0, 3}

\* handle_edit: under the config write lock the description is found, the new
\* text validated and written into the list; the task keeps the text it
\* replaced (here with the list it found, of which old_text is an entry).
handle_edit_mutate(c, id, text) ==
    /\ CanIssue(c)
    /\ id \in EditIds
    /\ text \in EditTexts
    /\ CanWrite(cfgW, cfgR)
    /\ ncmds' = ncmds + 1
    /\ IF position(config, id) = None \/ ~validate_description_text(text)
       THEN UNCHANGED <<tasks, config, cfgW>>
       ELSE LET idx == Unwrap(position(config, id))
            IN  /\ config' = [config EXCEPT ![idx + 1].text = text]
                /\ cfgW' = Some(c)
                /\ tasks' = [tasks EXCEPT ![c].pc = "edit_save", ![c].idx = idx,
                                          ![c].new_config = config]
    /\ UNCHANGED <<state, now, inbox, rpc, cand, wake, bio, stateW, stateR, cfgR>>
    /\ UNCHANGED <<limVars, diskVars, ghostVars>>
    /\ UNCHANGED apiVars
    /\ UNCHANGED expectVars

\* handle_edit: the list is saved (saveOk: the write succeeds); on failure
\* old_text is put back; the lock is dropped.
handle_edit_save(c, saveOk) ==
    /\ At(c, "edit_save")
    /\ cfgW = Some(c)
    /\ LET idx == tasks[c].idx
           old_text == tasks[c].new_config[idx + 1].text
       IN  IF saveOk
           THEN /\ cfgFile' = config
                /\ UNCHANGED config
           ELSE /\ config' = [config EXCEPT ![idx + 1].text = old_text]
                /\ UNCHANGED cfgFile
    /\ cfgW' = None
    /\ Returns(c)
    /\ UNCHANGED <<state, file, now, inbox, rpc, cand, wake, bio, stateW, stateR, cfgR>>
    /\ UNCHANGED <<ncmds, limVars, ghostVars>>
    /\ UNCHANGED apiVars
    /\ UNCHANGED expectVars

\* handle_duration: under the config write lock the duration is checked, the
\* description found and the new duration written into the list; the task
\* keeps the duration it replaced.
handle_duration_mutate(c, id, duration_secs) ==
    /\ CanIssue(c)
    /\ id \in EditIds
    /\ duration_secs \in DurationValues
    /\ CanWrite(cfgW, cfgR)
    /\ ncmds' = ncmds + 1
    /\ IF duration_secs = 0 \/ position(config, id) = None
       THEN UNCHANGED <<tasks, config, cfgW>>
       ELSE LET idx == Unwrap(position(config, id))
            IN  /\ config' = [config EXCEPT ![idx + 1].duration_secs = duration_secs]
                /\ cfgW' = Some(c)
                /\ tasks' = [tasks EXCEPT ![c].pc = "duration_save", ![c].idx = idx,
                                          ![c].new_config = config]
    /\ UNCHANGED <<state, now, inbox, rpc, cand, wake, bio, stateW, stateR, cfgR>>
    /\ UNCHANGED <<limVars, diskVars, ghostVars>>
    /\ UNCHANGED apiVars
    /\ UNCHANGED expectVars

\* handle_duration: the list is saved; on failure old_duration is put back;
\* the lock is dropped.
handle_duration_save(c, saveOk) ==
    /\ At(c, "duration_save")
    /\ cfgW = Some(c)
    /\ LET idx == tasks[c].idx
           old_duration == tasks[c].new_config[idx + 1].duration_secs
       IN  IF saveOk
           THEN /\ cfgFile' = config
                /\ UNCHANGED config
           ELSE /\ config' = [config EXCEPT ![idx + 1].duration_secs = old_duration]
                /\ UNCHANGED cfgFile
    /\ cfgW' = None
    /\ Returns(c)
    /\ UNCHANGED <<state, file, now, inbox, rpc, cand, wake, bio, stateW, stateR, cfgR>>
    /\ UNCHANGED <<ncmds, limVars, ghostVars>>
    /\ UNCHANGED apiVars
    /\ UNCHANGED expectVars

\* handle_reload: the descriptions file is loaded and validated.
handle_reload_load(c) ==
    /\ CanIssue(c)
    /\ ncmds' = ncmds + 1
    /\ IF validate(cfgFile)
       THEN tasks' = [tasks EXCEPT ![c].pc = "reload_swap", ![c].new_config = cfgFile]
       ELSE UNCHANGED tasks
    /\ UNCHANGED <<state, config, now, inbox, rpc, cand, wake, bio>>
    /\ UNCHANGED <<lockVars, limVars, diskVars, ghostVars>>
    /\ UNCHANGED apiVars
    /\ UNCHANGED expectVars

\* handle_reload: the config write lock is taken and the config replaced.
handle_reload_swap(c) ==
    /\ At(c, "reload_swap")
    /\ CanWrite(cfgW, cfgR)
    /\ cfgW' = Some(c)
    /\ config' = tasks[c].new_config
    /\ Goes(c, "reload_clamp")
    /\ UNCHANGED <<state, now, inbox, rpc, cand, wake, bio, stateW, stateR, cfgR>>
    /\ UNCHANGED <<ncmds, limVars, diskVars, ghostVars>>
    /\ UNCHANGED apiVars
    /\ expected' = None
    /\ UNCHANGED cycleExpected

\* handle_reload: the index after a reload that left new_len descriptions.
ReloadClamp(s, new_len) ==
    IF s.current_index >= new_len THEN [s EXCEPT !.current_index = 0] ELSE s

\* handle_reload: the state write lock is taken and the index reset when out
\* of bounds; both guards are dropped.
handle_reload_clamp(c) ==
    /\ At(c, "reload_clamp")
    /\ CanWrite(stateW, stateR)
    /\ state' = ReloadClamp(state, len(config))
    /\ cfgW' = None
    /\ Returns(c)
    /\ UNCHANGED <<config, now, inbox, rpc, cand, wake, bio, stateW, stateR, cfgR>>
    /\ UNCHANGED <<ncmds, limVars, diskVars, ghostVars>>
    /\ UNCHANGED apiVars
    /\ expected' = None
    /\ UNCHANGED cycleExpected

\* ------------------------------------------------- callers of the limiter
\* What a call of the limiter by a task other than the scheduler leaves alone.
programVars ==
    <<state, file, config, cfgFile, inbox, rpc, cand, wake, stateW, stateR,
      cfgW, cfgR, tasks, ncmds, bio, outcome, fresh, restarted, synced,
      sentInCall, expected, cycleExpected>>

\* A wait_and_acquire that sleeps with the mutex released.
wait_and_acquire_releasing(u) ==
    /\ callers[u].pc = "idle"
    /\ ~limHeld
    /\ LET w == wait_duration(last_operation, now)
       IN  IF w = 0
           THEN /\ last_operation' = Some(now)
                /\ acquired' = Some(now)
                /\ callers' = [callers EXCEPT ![u].pc = "acquired",
                                              ![u].waited = 0]
           ELSE /\ callers' = [callers EXCEPT ![u].pc = "sleep",
                                              ![u].wake = now + w,
                                              ![u].waited = w]
                /\ UNCHANGED <<last_operation, acquired>>
    /\ UNCHANGED <<now, limHeld>>
    /\ UNCHANGED programVars

\* wait_and_acquire by caller u: the mutex is taken; with nothing to wait for
\* the call is recorded and the caller returns, else it sleeps with the guard
\* alive.
wait_and_acquire(u) ==
    /\ callers[u].pc = "idle"
    /\ ~limHeld
    /\ LET w == wait_duration(last_operation, now)
       IN  IF w = 0
           THEN /\ last_operation' = Some(now)
                /\ acquired' = Some(now)
                /\ callers' = [callers EXCEPT ![u].pc = "acquired",
                                              ![u].waited = 0]
                /\ UNCHANGED limHeld
           ELSE /\ limHeld' = TRUE
                /\ callers' = [callers EXCEPT ![u].pc = "sleep",
                                              ![u].wake = now + w,
                                              ![u].waited = w]
                /\ UNCHANGED <<last_operation, acquired>>
    /\ UNCHANGED now
    /\ UNCHANGED programVars

\* wait_and_acquire: the sleep of caller u ends, the call is recorded, the
\* guard is dropped on return.
wait_and_acquire_wake(u) ==
    /\ callers[u].pc = "sleep"
    /\ now >= callers[u].wake
    /\ last_operation' = Some(now)
    /\ acquired' = Some(now)
    /\ limHeld' = FALSE
    /\ callers' = [callers EXCEPT ![u].pc = "acquired"]
    /\ UNCHANGED now
    /\ UNCHANGED programVars

\* The caller's request after wait_and_acquire returned goes through.
invoke_done(u) ==
    /\ callers[u].pc = "acquired"
    /\ callers' = [callers EXCEPT ![u].pc = "idle", ![u].waited = 0]
    /\ UNCHANGED <<now, limVars, acquired>>
    /\ UNCHANGED programVars

\* The caller's request is answered with a flood wait: handle_flood_wait
\* starts its sleep, the mutex not taken.
handle_flood_wait(u, seconds) ==
    /\ callers[u].pc = "acquired"
    /\ seconds \in FloodWaits
    /\ callers' = [callers EXCEPT ![u].pc = "flood", ![u].wake = now + seconds]
    /\ UNCHANGED <<now, limVars, acquired>>
    /\ UNCHANGED programVars

\* handle_flood_wait: the sleep ends, the mutex is taken and the limiter is
\* marked used.
handle_flood_wait_wake(u) ==
    /\ callers[u].pc = "flood"
    /\ now >= callers[u].wake
    /\ ~limHeld
    /\ last_operation' = Some(now)
    /\ callers' = [callers EXCEPT ![u].pc = "idle", ![u].waited = 0]
    /\ UNCHANGED <<now, limHeld, acquired>>
    /\ UNCHANGED programVars

\* An is_allowed that asks for more than the interval.
allowed_at_strict(last, t) ==
    IF last # None THEN t - Unwrap(last) > MinInterval ELSE TRUE

\* is_allowed at time t
allowed_at(last, t) ==
    IF last # None THEN t - Unwrap(last) >= MinInterval ELSE TRUE

\* time_until_allowed at time t
remaining_at(last, t) ==
    IF last # None
    THEN IF t - Unwrap(last) >= MinInterval
         THEN 0
         ELSE MinInterval - (t - Unwrap(last))
    ELSE 0

\* is_allowed by caller u
is_allowed(u) ==
    /\ callers[u].pc = "idle"
    /\ ~limHeld
    /\ callers' = [callers EXCEPT ![u].allowed = allowed_at(last_operation, now)]
    /\ UNCHANGED <<now, limVars, acquired>>
    /\ UNCHANGED programVars

\* time_until_allowed by caller u
time_until_allowed(u) ==
    /\ callers[u].pc = "idle"
    /\ ~limHeld
    /\ callers' = [callers EXCEPT
                     ![u].remaining = remaining_at(last_operation, now)]
    /\ UNCHANGED <<now, limVars, acquired>>
    /\ UNCHANGED programVars

\* mark_used by caller u
mark_used(u) ==
    /\ callers[u].pc = "idle"
    /\ ~limHeld
    /\ last_operation' = Some(now)
    /\ UNCHANGED <<now, limHeld, callers, acquired>>
    /\ UNCHANGED programVars

\* reset by caller u
reset(u) ==
    /\ callers[u].pc = "idle"
    /\ ~limHeld
    /\ last_operation' = None
    /\ acquired' = None
    /\ UNCHANGED <<now, limHeld, callers>>
    /\ UNCHANGED programVars

\* ----------------------------------------------------------- specification
RunnerNext ==
    \/ RunTick
    \/ RunRecv
    \/ TickCheck
    \/ TickLockState
    \/ TickDecide
    \/ \E authorized \in BOOLEAN : UpdateBioAuth(authorized)
    \/ UpdateBioAcquire
    \/ UpdateBioWake
    \/ InvokeOk
    \/ \E seconds \in FloodWaits : InvokeFloodWait(seconds)
    \/ \E e \in InvokeErrors : InvokeErr(e)
    \/ FloodWake
    \/ TickCommitLock
    \/ \E saveOk \in BOOLEAN : TickCommit(saveOk)

CommandNext ==
    \E c \in CmdTasks :
        \/ handle_pause(c)
        \/ handle_resume(c)
        \/ handle_skip(c)
        \/ \E target \in GotoTargets : handle_goto_resolve(c, target)
        \/ handle_goto_write(c)
        \/ handle_goto_read(c)
        \/ \E text \in SetTexts : handle_set_validate(c, text)
        \/ handle_set_write(c)
        \/ \E id \in DeleteIds, saveOk \in BOOLEAN : handle_delete_remove(c, id, saveOk)
        \/ handle_delete_write(c)
        \/ handle_delete_adjust(c)
        \/ handle_reload_load(c)
        \/ handle_reload_swap(c)
        \/ handle_reload_clamp(c)

\* One lifetime of the process: the scheduler, the commands, the clock and
\* the messages.
LiveNext ==
    \/ RunnerNext
    \/ CommandNext
    \/ ClockTick
    \/ SendTrigger
    \/ CtrlC

\* The process is killed and started again; the descriptions file is edited.
BootNext ==
    \/ \E c \in FileChoices : EditFile(c)
    \/ Kill
    \/ Start

Next == LiveNext \/ BootNext

Spec == Init /\ [][Next]_vars

SpecLive == Init /\ [][LiveNext]_vars

\* One lifetime in which the scheduler task and the command tasks are each
\* scheduled again and again (the runtime polls every task that can go on).
SpecFair ==
    /\ Init
    /\ [][LiveNext]_vars
    /\ WF_vars(RunnerNext)
    /\ WF_vars(CommandNext)

\* The scheduler alone, killed and started again at any point.
CrashNext ==
    \/ RunnerNext
    \/ ClockTick
    \/ CtrlC
    \/ Kill
    \/ Start

SpecCrash == Init /\ [][CrashNext]_vars

\* Contents of state.json an earlier run left: none, or a commit at any index
\* whose deadline has passed.
StoredFiles ==
    {None} \cup
    {Some([current_index |-> i, is_paused |-> FALSE,
           expires_at_unix |-> Some(0), custom_description |-> None]) :
        i \in 0..(Len(InitialDescriptions) - 1)}

\* main, with any of these files on disk.
InitStored ==
    /\ file \in StoredFiles
    /\ cfgFile = InitialDescriptions
    /\ state = from_persistent(load(file))
    /\ config = cfgFile
    /\ now = 0
    /\ inbox = <<>>
    /\ rpc = "idle"
    /\ cand = NoCand
    /\ wake = 0
    /\ stateW = None /\ stateR = {}
    /\ cfgW = None /\ cfgR = {}
    /\ tasks = [c \in CmdTasks |-> IdleTask]
    /\ ncmds = 0
    /\ bio = None
    /\ last_operation = None
    /\ limHeld = FALSE
    /\ outcome = "none"
    /\ fresh = TRUE
    /\ restarted = FALSE
    /\ synced = TRUE
    /\ sentInCall = FALSE
    /\ expected = None
    /\ cycleExpected = None
    /\ callers = [u \in Callers |-> IdleCaller]
    /\ acquired = None

\* The command handlers alone, on any stored state, the descriptions file
\* being edited meanwhile.
CommandsNext ==
    \/ CommandNext
    \/ \E c \in FileChoices : EditFile(c)

SpecCommands == InitStored /\ [][CommandsNext]_vars

\* The command handlers with edit and duration among them.
EditNext ==
    \/ CommandsNext
    \/ \E c \in CmdTasks :
        \/ \E id \in EditIds, text \in EditTexts : handle_edit_mutate(c, id, text)
        \/ \E saveOk \in BOOLEAN : handle_edit_save(c, saveOk)
        \/ \E id \in EditIds, d \in DurationValues : handle_duration_mutate(c, id, d)
        \/ \E saveOk \in BOOLEAN : handle_duration_save(c, saveOk)
SpecEdit == InitStored /\ [][EditNext]_vars

\* Descriptions files a process can start with: the whole list, or what
\* deletes or an editor left of it.
StartFiles == {InitialDescriptions, <<DescA, DescB>>, <<DescA>>}

\* main, with any of these state files and descriptions files on disk.
InitLoop ==
    /\ file \in StoredFiles
    /\ cfgFile \in StartFiles
    /\ state = from_persistent(load(file))
    /\ config = cfgFile
    /\ now = 0
    /\ inbox = <<>>
    /\ rpc = "idle"
    /\ cand = NoCand
    /\ wake = 0
    /\ stateW = None /\ stateR = {}
    /\ cfgW = None /\ cfgR = {}
    /\ tasks = [c \in CmdTasks |-> IdleTask]
    /\ ncmds = 0
    /\ bio = None
    /\ last_operation = None
    /\ limHeld = FALSE
    /\ outcome = "none"
    /\ fresh = TRUE
    /\ restarted = FALSE
    /\ synced = TRUE
    /\ sentInCall = FALSE
    /\ expected = None
    /\ cycleExpected = None
    /\ callers = [u \in Callers |-> IdleCaller]
    /\ acquired = None

\* The loop of the scheduler on any such start, descriptions being deleted
\* meanwhile, until Shutdown.
LoopNext ==
    \/ RunnerNext
    \/ ClockTick
    \/ CtrlC
    \/ \E c \in CmdTasks :
        \/ \E id \in DeleteIds, saveOk \in BOOLEAN : handle_delete_remove(c, id, saveOk)
        \/ handle_delete_write(c)
        \/ handle_delete_adjust(c)

SpecLoop == InitLoop /\ [][LoopNext]_vars

\* The command handlers run one command at a time, with no scheduler task
\* beside them: the second task never takes a command.
SerialNext ==
    /\ tasks["c2"].pc = "idle"
    /\ CommandsNext
    /\ tasks'["c2"].pc = "idle"
SpecSerial == InitLoop /\ [][SerialNext]_vars

\* ------------------------------------ the scheduler state's own operations
\* Values the operations are called with.
Indexes == 0..3
Counts == 0..3
Durations == {1, 2}
\* Contents of state.json that parse.
ParsingContents ==
    [current_index : 0..2, is_paused : BOOLEAN,
     expires_at_unix : {None, Some(1)},
     custom_description : {None, Some("T1")}]
\* Contents that do not: current_index is no usize.
BadContents ==
    {[current_index |-> -1, is_paused |-> p,
      expires_at_unix |-> Some(1), custom_description |-> Some("T1")] :
        p \in BOOLEAN}
\* state.json: unreadable, or holding any of these contents.
StateFiles == {None} \cup {Some(c) : c \in ParsingContents \cup BadContents}

\* What the operations of SchedulerState and PersistentState leave alone.
otherVars ==
    <<config, cfgFile, inbox, rpc, cand, wake, stateW, stateR, cfgW, cfgR,
      tasks, ncmds, bio, last_operation, limHeld, outcome, fresh, restarted,
      synced, sentInCall, expected, cycleExpected, callers, acquired>>

\* main: the state is built from whatever state.json holds.
InitState ==
    /\ file \in StateFiles
    /\ cfgFile = InitialDescriptions
    /\ state = from_persistent(load(file))
    /\ config = cfgFile
    /\ now = 0
    /\ inbox = <<>>
    /\ rpc = "idle"
    /\ cand = NoCand
    /\ wake = 0
    /\ stateW = None /\ stateR = {}
    /\ cfgW = None /\ cfgR = {}
    /\ tasks = [c \in CmdTasks |-> IdleTask]
    /\ ncmds = 0
    /\ bio = None
    /\ last_operation = None
    /\ limHeld = FALSE
    /\ outcome = "none"
    /\ fresh = TRUE
    /\ restarted = FALSE
    /\ synced = TRUE
    /\ sentInCall = FALSE
    /\ expected = None
    /\ cycleExpected = None
    /\ callers = [u \in Callers |-> IdleCaller]
    /\ acquired = None

\* PersistentState::load and SchedulerState::from_persistent on the file.
Load ==
    /\ state' = from_persistent(load(file))
    /\ UNCHANGED <<file, now, otherVars>>
\* to_persistent and PersistentState::save
Save(ok) ==
    /\ file' = save(file, to_persistent(state), ok)
    /\ UNCHANGED <<state, now, otherVars>>
\* to_persistent, and from_persistent on its result
Restore ==
    /\ state' = from_persistent(to_persistent(state))
    /\ UNCHANGED <<file, now, otherVars>>
Advance(count) ==
    /\ state' = advance(state, count)
    /\ UNCHANGED <<file, now, otherVars>>
SetDeadline(d) ==
    /\ state' = set_deadline(state, d, now)
    /\ UNCHANGED <<file, now, otherVars>>
ClearDeadline ==
    /\ state' = clear_deadline(state)
    /\ UNCHANGED <<file, now, otherVars>>
SetIndex(i) ==
    /\ state' = set_index(state, i)
    /\ UNCHANGED <<file, now, otherVars>>
ClearCustom ==
    /\ state' = clear_custom(state)
    /\ UNCHANGED <<file, now, otherVars>>
\* The public fields is_paused and custom_description are written.
SetPaused(b) ==
    /\ state' = [state EXCEPT !.is_paused = b]
    /\ UNCHANGED <<file, now, otherVars>>
SetCustom(text) ==
    /\ state' = [state EXCEPT !.custom_description = Some(text)]
    /\ UNCHANGED <<file, now, otherVars>>

StateNext ==
    \/ Load
    \/ \E ok \in BOOLEAN : Save(ok)
    \/ Restore
    \/ \E count \in Counts : Advance(count)
    \/ \E d \in Durations : SetDeadline(d)
    \/ ClearDeadline
    \/ \E i \in Indexes : SetIndex(i)
    \/ ClearCustom
    \/ \E b \in BOOLEAN : SetPaused(b)
    \/ \E text \in SetTexts \ {""} : SetCustom(text)
    \/ ClockTick

SpecState == InitState /\ [][StateNext]_vars

\* main, with state.json holding f and the descriptions file holding cf; ts
\* is where the command tasks stand.
InitWith(f, cf, ts) ==
    /\ file = f
    /\ cfgFile = cf
    /\ state = from_persistent(load(file))
    /\ config = cfgFile
    /\ now = 0
    /\ inbox = <<>>
    /\ rpc = "idle"
    /\ cand = NoCand
    /\ wake = 0
    /\ stateW = None /\ stateR = {}
    /\ cfgW = None /\ cfgR = {}
    /\ tasks = ts
    /\ ncmds = 0
    /\ bio = None
    /\ last_operation = None
    /\ limHeld = FALSE
    /\ outcome = "none"
    /\ fresh = TRUE
    /\ restarted = FALSE
    /\ synced = TRUE
    /\ sentInCall = FALSE
    /\ expected = None
    /\ cycleExpected = None
    /\ callers = [u \in Callers |-> IdleCaller]
    /\ acquired = None

\* main, no command received yet.
InitFrom(f, cf) == InitWith(f, cf, [c \in CmdTasks |-> IdleTask])

\* handle_goto on task c1 at the moment it has resolved "3" to index 2 and
\* dropped the config read lock.
GotoResolved ==
    [c \in CmdTasks |->
        IF c = "c1" THEN [IdleTask EXCEPT !.pc = "goto_write", !.idx = 2]
        ELSE IdleTask]

\* The command handlers from that moment on: MaxCmds further commands.
InitGoto == \E f \in StoredFiles : InitWith(f, InitialDescriptions, GotoResolved)
SpecGoto == InitGoto /\ [][CommandsNext]_vars

\* The scheduler loop of a fresh process beside that goto and the deletes.
InitRace == InitWith(None, InitialDescriptions, GotoResolved)
RaceNext ==
    \/ LoopNext
    \/ \E c \in CmdTasks :
        \/ handle_goto_write(c)
        \/ handle_goto_read(c)
SpecRace == InitRace /\ [][RaceNext]_vars

\* state.json as a commit saved it while a custom description set during
\* that cycle was pending.
StoredOverride ==
    Some([current_index |-> 0, is_paused |-> FALSE,
          expires_at_unix |-> Some(0), custom_description |-> Some("T0")])

\* One lifetime of a process that starts with a custom description pending.
SpecOverride == InitFrom(StoredOverride, InitialDescriptions) /\ [][LiveNext]_vars

\* state.json as a commit saved it after a pause that ran during the cycle.
PausedFiles ==
    {Some([current_index |-> i, is_paused |-> TRUE,
           expires_at_unix |-> Some(0), custom_description |-> None]) :
        i \in 0..(Len(InitialDescriptions) - 1)}

\* The command handlers in a process that starts paused or not.
InitPaused ==
    \E f \in StoredFiles \cup PausedFiles : InitFrom(f, InitialDescriptions)
SpecPaused == InitPaused /\ [][CommandsNext]_vars

\* The scheduler loop and deletes in a process that starts with a custom
\* description pending.
InitPending == \E cf \in StartFiles : InitFrom(StoredOverride, cf)
SpecPending == InitPending /\ [][LoopNext]_vars

\* The rate limiter under concurrent use: the scheduler's updates, and other
\* tasks calling every operation of the limiter, as the clock runs.
LimiterNext ==
    \/ RunnerNext
    \/ ClockTick
    \/ CtrlC
    \/ \E u \in Callers :
        \/ wait_and_acquire(u)
        \/ wait_and_acquire_wake(u)
        \/ invoke_done(u)
        \/ \E seconds \in FloodWaits : handle_flood_wait(u, seconds)
        \/ handle_flood_wait_wake(u)
        \/ is_allowed(u)
        \/ time_until_allowed(u)
        \/ mark_used(u)
        \/ reset(u)

SpecLimiter == Init /\ [][LimiterNext]_vars

\* -------------------------------------------------------------- properties
\* Steps of the scheduler task, told by where it is before and after.
\* tick, step 1 returns or goes on.
CheckStep == rpc = "check" /\ rpc' \in {"idle", "snap"}
\* tick, step 2 returns or goes on to the update.
DecideStep == rpc = "decide" /\ rpc' \in {"idle", "auth"}
\* update_bio returns Ok.
InvokeOkStep == rpc = "invoke" /\ rpc' = "commit"
\* update_bio fails: not authorized, an error of the request, a flood wait
\* being answered and then served.
FailureStep ==
    /\ rpc \in {"auth", "invoke", "flood"}
    /\ rpc' \in {"idle", "flood"}
    /\ rpc' # rpc
\* tick, step 4 commits.
CommitStep == rpc = "commit2" /\ rpc' = "idle"
\* Any step of the scheduler task within one lifetime of the process.
RunnerStep == rpc' # rpc /\ rpc # "dead" /\ rpc' # "dead"
\* The scheduler task is inside update_bio.
InCall == rpc \in {"auth", "acquire", "sleep", "invoke", "flood"}
\* The cycle that a step ends finds the state paused or the deadline ahead.
NotDue ==
    \/ state.is_paused
    \/ state.expires_at_unix # None /\ now < Unwrap(state.expires_at_unix)

\* C1: when the external call fails (rate limited, flood wait, not authorized
\* or any other error) the scheduler changes nothing: the state (index, pause
\* flag, override, deadline) and the persisted file stay as they were.
C1_FailureChangesNothing ==
    [][FailureStep => state' = state /\ file' = file]_vars
\* A cycle ended in a flood wait after an earlier cycle had committed a
\* deadline, which is still there.
C1_Witness ==
    /\ outcome = "FloodWait"
    /\ rpc = "idle"
    /\ has_deadline(state)
    /\ file # None

\* C2: the scheduler changes current_index only in the commit of a cycle whose
\* call succeeded and whose snapshot had a deadline and no pending override.
C2_IndexChangesOnlyOnAdvance ==
    [][(RunnerStep /\ state'.current_index # state.current_index)
          => (CommitStep /\ cand.should_advance /\ ~cand.has_custom)]_vars
\* The scheduler has advanced the index: no command was ever issued.
C2_Witness ==
    /\ ncmds = 0
    /\ state.current_index = 1
    /\ outcome = "updated"

\* C3: with an override pending at the snapshot the text passed to the call is
\* the override; the commit leaves current_index, clears the override and
\* sets the deadline to now + 3600.
C3_OverrideCycle ==
    [][/\ (DecideStep /\ ~NotDue /\ ~is_empty(config)
               /\ state.custom_description # None)
          => (/\ rpc' = "auth"
              /\ cand'.has_custom
              /\ cand'.text = Unwrap(state.custom_description))
       /\ (InvokeOkStep /\ cand.has_custom) => bio' = Some(cand.text)
       /\ (CommitStep /\ cand.has_custom)
          => (/\ state'.current_index = state.current_index
              /\ state'.custom_description = None
              /\ state'.expires_at_unix = Some(now + CustomDurationSecs))]_vars
\* An override was applied and committed.
C3_Witness ==
    /\ outcome = "updated"
    /\ bio = Some("T1")
    /\ state.custom_description = None
    /\ state.expires_at_unix = Some(now + CustomDurationSecs)

\* C4: while the external call is in flight the scheduler holds neither the
\* state lock nor the config lock, so a command can take them and complete.
C4_NoLockAcrossCall ==
    InCall =>
        /\ Runner \notin stateR
        /\ Runner \notin cfgR
        /\ stateW # Some(Runner)
        /\ cfgW # Some(Runner)
\* A pause completed while the call was in flight.
C4_Witness ==
    /\ rpc = "invoke"
    /\ state.is_paused
    /\ ncmds = 1
    /\ \A c \in CmdTasks : tasks[c].pc = "idle"

\* The description a natural expiry moves to, from the snapshot of a cycle.
NextOf(i, cfg) == cfg[((i + 1) % Len(cfg)) + 1]
\* A natural expiry is due: the deadline is there and has passed, nothing is
\* pending, the rotation runs, the list is not empty.
NaturalExpiry ==
    /\ ~state.is_paused
    /\ state.expires_at_unix # None
    /\ now >= Unwrap(state.expires_at_unix)
    /\ state.custom_description = None
    /\ Len(config) > 0
\* The commit of a cycle that was a natural expiry.
AdvanceCommit == CommitStep /\ cand.should_advance /\ ~cand.has_custom

NoDeadline ==
    /\ ~state.is_paused
    /\ state.expires_at_unix = None
    /\ Len(config) > 0
\* The commit of a cycle that found no deadline.
FirstCommit == CommitStep /\ ~cand.should_advance

\* C6 as stated: with no deadline, not paused and a non-empty list the next
\* cycle attempts an update with description[current_index] and advance =
\* false; after success the index is unchanged and the deadline = now + that
\* description's duration.
C6_NoDeadlineAppliesCurrent ==
    [][/\ (CheckStep /\ NoDeadline) => rpc' = "snap"
       /\ (DecideStep /\ NoDeadline)
          => (/\ rpc' = "auth"
              /\ ~cand'.should_advance
              /\ state.current_index < Len(config)
              /\ cand'.text = config[state.current_index + 1].text)
       /\ FirstCommit
          => (/\ state'.current_index = state.current_index
              /\ cand.snap_index < Len(cand.snap_config)
              /\ state'.expires_at_unix
                   = Some(now + cand.snap_config[cand.snap_index + 1].duration_secs))]_vars

\* The description a cycle without deadline applies: the current one, the
\* first one when the index is out of range.
CurrentOf(i, cfg) == IF i < Len(cfg) THEN cfg[i + 1] ELSE cfg[1]

\* C6 amended: with no deadline, no pending override, not paused and a
\* non-empty list the next cycle attempts an update with advance = false and
\* description[current_index] (description[0] when the index is out of range);
\* after success the index is unchanged and the deadline = now + that
\* description's duration.
C6_NoDeadlineNoOverride ==
    [][/\ (CheckStep /\ NoDeadline) => rpc' = "snap"
       /\ (DecideStep /\ NoDeadline /\ state.custom_description = None)
          => (/\ rpc' = "auth"
              /\ ~cand'.should_advance
              /\ ~cand'.has_custom
              /\ cand'.text = CurrentOf(state.current_index, config).text)
       /\ (FirstCommit /\ ~cand.has_custom)
          => (/\ state'.current_index = state.current_index
              /\ state'.expires_at_unix
                   = Some(now + CurrentOf(cand.snap_index, cand.snap_config).duration_secs))]_vars
\* The first cycle of a fresh process applied A and committed: the index is
\* still 0 and the deadline is A's duration away.
C6_Witness ==
    /\ outcome = "updated"
    /\ ncmds = 0
    /\ bio = Some("A")
    /\ state.current_index = 0
    /\ state.expires_at_unix = Some(now + DescA.duration_secs)

\* C7: a cycle that finds the state paused, or a deadline still ahead, makes
\* no call (it returns, the limiter and the live text untouched) and changes
\* neither the state nor the persisted file.
C7_NotDueDoesNothing ==
    [][((CheckStep \/ DecideStep) /\ NotDue)
          => (/\ rpc' = "idle"
              /\ state' = state
              /\ file' = file
              /\ bio' = bio
              /\ last_operation' = last_operation)]_vars
\* A cycle ran and returned while the deadline was still ahead.
C7_Witness ==
    /\ outcome = "skipped"
    /\ rpc = "idle"
    /\ ~state.is_paused
    /\ state.expires_at_unix # None
    /\ now < Unwrap(state.expires_at_unix)

\* Command c returns success after it changed the state.
ReturnsOk(c) ==
    \/ handle_pause(c) /\ PauseOk(state)
    \/ handle_resume(c) /\ ResumeOk(state)
    \/ handle_skip(c) /\ SkipOk(state)
    \/ handle_goto_read(c)
    \/ handle_set_write(c)
    \/ handle_delete_adjust(c)
    \/ handle_reload_clamp(c)

\* C8: when a state-mutating command returns, the persisted file holds the
\* projection of the state in memory.
C8_CommandsPersist ==
    [][\A c \in CmdTasks :
          ReturnsOk(c) => load(file') = to_persistent(state')]_vars

\* The description after the one with the given text.
SuccessorText(text, cfg) ==
    LET k == CHOOSE j \in 1..Len(cfg) : cfg[j].text = text
    IN  cfg[(k % Len(cfg)) + 1].text
\* The first update a started-again process applies, with one applied before.
FirstAfterRestart == InvokeOkStep /\ fresh /\ restarted /\ bio # None

C10_IndexInRange ==
    (/\ Alive
     /\ Len(config) > 0
     /\ \A c \in CmdTasks : tasks[c].pc = "idle")
        => state.current_index < Len(config)

\* A delete or a reload of task c completes.
DeleteCompletes(c) == handle_delete_adjust(c)
ReloadCompletes(c) == handle_reload_clamp(c)
\* The description count is at or below the stored index.
IndexOutOfList == Len(config) <= state.current_index

\* C11 as stated: after a delete or a reload that leaves the count at or below
\* the stored current_index, current_index is 0.
C11_ShrinkResetsIndex ==
    [][\A c \in CmdTasks :
          ((DeleteCompletes(c) \/ ReloadCompletes(c)) /\ IndexOutOfList)
             => state'.current_index = 0]_vars

\* C11 amended: after a reload that leaves the count at or below the stored
\* current_index, current_index is 0; after a delete that does, current_index
\* is count - 1, the last description (0 when the list is left empty).
C11_ShrinkClampsIndex ==
    [][\A c \in CmdTasks :
          /\ (ReloadCompletes(c) /\ IndexOutOfList)
                => state'.current_index = 0
          /\ (DeleteCompletes(c) /\ IndexOutOfList)
                => state'.current_index
                     = IF Len(config) = 0 THEN 0 ELSE Len(config) - 1]_vars
\* The stored index was 2 of 3; one delete left two descriptions and the index
\* at the last of them.
C11_Witness ==
    /\ file # None
    /\ load(file).current_index = 2
    /\ ncmds = 1
    /\ \A c \in CmdTasks : tasks[c].pc = "idle"
    /\ Len(config) = 2
    /\ state.current_index = 1

\* The update under way was decided after a goto (a set) completed, and is
\* the first since.
AfterGoto ==
    /\ cycleExpected # None
    /\ Unwrap(cycleExpected).by = "goto"
    /\ ~Unwrap(cycleExpected).applied
AfterSet ==
    /\ cycleExpected # None
    /\ Unwrap(cycleExpected).by = "set"
    /\ ~Unwrap(cycleExpected).applied
\* No update was applied since a skip (a set) succeeded.
SkipPending ==
    /\ expected # None
    /\ Unwrap(expected).by = "skip"
    /\ ~Unwrap(expected).applied
SetPending ==
    /\ expected # None
    /\ Unwrap(expected).by = "set"
    /\ ~Unwrap(expected).applied

\* C12: when a goto that resolved to index i completes, current_index = i and
\* the deadline is cleared; the next update the scheduler decides applies
\* description[i] without advance.
C12_GotoAppliesTarget ==
    [][/\ \A c \in CmdTasks :
             handle_goto_read(c)
                => (/\ state'.current_index = tasks[c].idx
                    /\ state'.expires_at_unix = None)
       /\ (InvokeOkStep /\ AfterGoto)
             => (/\ bio' = Some(Unwrap(cycleExpected).text)
                 /\ ~cand.should_advance)]_vars

\* C13: when set T completes the override is T and the deadline is cleared;
\* the next cycle of an unpaused scheduler goes on to an update, and the next
\* update the scheduler decides after the command carries T.
C13_SetAppliesOverride ==
    [][/\ \A c \in CmdTasks :
             handle_set_write(c)
                => (/\ state'.custom_description = Some(tasks[c].text)
                    /\ state'.expires_at_unix = None)
       /\ (CheckStep /\ SetPending /\ ~state.is_paused) => rpc' = "snap"
       /\ (InvokeOkStep /\ AfterSet)
             => bio' = Some(Unwrap(cycleExpected).text)]_vars

\* C14: a successful skip clears the deadline and nothing else: the index, the
\* pause flag and the override stay, and the state is due with no deadline.
C14_SkipClearsDeadlineOnly ==
    [][\A c \in CmdTasks :
          (handle_skip(c) /\ SkipOk(state))
             => (/\ state'.expires_at_unix = None
                 /\ state'.current_index = state.current_index
                 /\ state'.is_paused = state.is_paused
                 /\ state'.custom_description = state.custom_description)]_vars

\* C15: after a successful skip issued while description[i] is the live one
\* (not paused, no override), with no other command since, the next text the
\* scheduler applies is description[(i+1) mod n].
C15_SkipThenNext ==
    [][(InvokeOkStep /\ SkipPending)
          => bio' = Some(Unwrap(expected).text)]_vars
\* wait_and_acquire returns to the scheduler's update_bio or to another caller.
AcquireCompletes ==
    \/ rpc' = "invoke" /\ rpc # "invoke"
    \/ \E u \in Callers : callers'[u].pc = "acquired" /\ callers[u].pc # "acquired"

\* C16: a call of wait_and_acquire, by the scheduler before each update or by
\* any other caller, completes at least MinInterval after the completion
\* before it, when the limiter was not reset in between.
C16_AcquisitionsSpaced ==
    [][(AcquireCompletes /\ acquired # None)
          => now - Unwrap(acquired) >= MinInterval]_vars
\* The other caller acquired first; the scheduler found the mutex free, slept
\* out the interval and acquired MinInterval later.
C16_Witness ==
    /\ callers["u1"].pc = "acquired"
    /\ rpc = "invoke"
    /\ wake = MinInterval
    /\ acquired = Some(MinInterval)
    /\ now = MinInterval
\* A task is in the sleep of wait_and_acquire or of handle_flood_wait.
Sleeping ==
    \/ rpc \in {"sleep", "flood"}
    \/ \E u \in Callers : callers[u].pc \in {"sleep", "flood"}

\* C17: while a task sleeps inside wait_and_acquire or handle_flood_wait the
\* limiter's mutex is free, so that a caller in no call can run is_allowed,
\* time_until_allowed, mark_used or reset to completion.
C17_NoMutexWhileSleeping ==
    Sleeping =>
        /\ ~limHeld
        /\ \A u \in Callers :
              callers[u].pc = "idle"
                 => (/\ ENABLED is_allowed(u)
                     /\ ENABLED time_until_allowed(u)
                     /\ ENABLED mark_used(u)
                     /\ ENABLED reset(u))
\* run takes the Shutdown message from the channel.
ReceivesShutdown ==
    /\ inbox # <<>>
    /\ Head(inbox) = "Shutdown"
    /\ inbox' = Tail(inbox)
\* The loop of run is left.
LoopExits == rpc # "stopped" /\ rpc' = "stopped"

\* C18: on receiving Shutdown the scheduler leaves its loop; after that it
\* starts no cycle and no call (its position, the live text, the limiter and
\* the outcome of the last cycle stay); the loop is left only between
\* cycles, so a call under way when Shutdown was sent runs to its end, and
\* to its commit on success, first.
C18_ShutdownBetweenCycles ==
    [][/\ ReceivesShutdown => rpc' = "stopped"
       /\ rpc = "stopped"
             => (/\ rpc' = "stopped"
                 /\ bio' = bio
                 /\ last_operation' = last_operation
                 /\ limHeld' = limHeld
                 /\ cand' = cand
                 /\ outcome' = outcome)
       /\ LoopExits => rpc = "idle"]_vars
\* Shutdown was sent while update_bio was under way; the call succeeded, the
\* update was committed, and then the loop was left.
C18_Witness ==
    /\ rpc = "stopped"
    /\ sentInCall
    /\ outcome = "updated"
    /\ bio # None
    /\ state.expires_at_unix # None
\* The scheduler task is inside tick.
InCycle == rpc \notin {"idle", "stopped", "dead"}

\* C19: no step of a cycle leaves the loop: whatever the cycle meets (a
\* failed call, an empty list, an index out of range, a failed save) the
\* task is back at the head of the loop, where the next tick can be taken;
\* the loop is left only by taking Shutdown from the channel.
C19_OnlyShutdownEndsLoop ==
    /\ [][/\ InCycle => rpc' # "stopped"
          /\ LoopExits => ReceivesShutdown]_vars
    /\ [](rpc = "idle" => ENABLED RunTick)
\* The last description was deleted; the cycle found the list empty and the
\* loop is at its head again.
C19_Witness ==
    /\ rpc = "idle"
    /\ outcome = "empty"
    /\ config = <<>>
\* The state is unpaused and due, and there are descriptions.
DueWithList ==
    /\ ~state.is_paused
    /\ state.expires_at_unix = None \/ now >= Unwrap(state.expires_at_unix)
    /\ config # <<>>
\* The update is committed and a deadline is set.
Committed ==
    /\ rpc = "idle"
    /\ outcome = "updated"
    /\ state.expires_at_unix # None

\* C20: a cycle that finds the state unpaused and due, with descriptions,
\* goes on to an update attempt; and once update_bio has succeeded the
\* update is committed and a deadline set, the tasks being scheduled fairly.
C20_SucceededCallIsCommitted ==
    /\ [][/\ (CheckStep /\ DueWithList) => rpc' = "snap"
          /\ (DecideStep /\ DueWithList) => rpc' = "auth"]_vars
    /\ (rpc = "commit") ~> Committed
BadFile == file = None \/ file \in {Some(c) : c \in BadContents}

\* C22: whenever state.json is missing, unreadable or unparsable, load gives
\* the all-default value (never an error), and the state built from it is
\* index 0, not paused, without override, and due at once: is_expired holds
\* and has_deadline does not.
C22_LoadDefaults ==
    [][(Load /\ BadFile)
          => (/\ state'.current_index = 0
              /\ ~state'.is_paused
              /\ state'.custom_description = None
              /\ state'.expires_at_unix = None
              /\ is_expired(state', now)
              /\ ~has_deadline(state'))]_vars
\* A state that had moved on was rebuilt from an unparsable file.
C22_Witness ==
    /\ file \in {Some(c) : c \in BadContents}
    /\ state.current_duration_secs = None
    /\ state.current_index = 0
    /\ state.expires_at_unix = None
    /\ now > 0
\* C23: from_persistent(to_persistent(s)) has the index, the pause flag, the
\* pending override and the deadline (whole seconds) of s, directly and
\* through a save that succeeds followed by a load.
C23_RoundTrip ==
    [][/\ Restore
             => (/\ state'.current_index = state.current_index
                 /\ state'.is_paused = state.is_paused
                 /\ state'.custom_description = state.custom_description
                 /\ state'.expires_at_unix = state.expires_at_unix)
       /\ Save(TRUE)
             => (/\ from_persistent(load(file')).current_index = state.current_index
                 /\ from_persistent(load(file')).is_paused = state.is_paused
                 /\ from_persistent(load(file')).custom_description
                       = state.custom_description
                 /\ from_persistent(load(file')).expires_at_unix
                       = state.expires_at_unix)]_vars
\* A paused state at index 2 with an override and a deadline set at run time
\* went through the conversion: only the duration for display is gone.
C23_Witness ==
    /\ state.current_duration_secs = None
    /\ state.expires_at_unix = Some(3)
    /\ state.custom_description = Some("T1")
    /\ state.is_paused
    /\ state.current_index = 2
\* advance(count) called k times in a row on s.
RECURSIVE AdvanceTimes(_, _, _)
AdvanceTimes(s, count, k) ==
    IF k = 0 THEN s ELSE AdvanceTimes(advance(s, count), count, k - 1)

\* One advance sets the index to (index + 1) mod count.
AdvanceIsSuccessor ==
    [][\A count \in Counts \ {0} :
          Advance(count)
             => state'.current_index = (state.current_index + 1) % count]_vars

\* C24 as stated: for every count > 0 and any starting index, count advances
\* bring the index back to where it was, and one advance sets it to
\* (index + 1) mod count.
C24_AdvanceWrapsFromAnyIndex ==
    /\ [](\A count \in Counts \ {0} :
            AdvanceTimes(state, count, count).current_index = state.current_index)
    /\ AdvanceIsSuccessor

\* C24: for every count > 0 and a starting index below count, count advances
\* bring the index back to where it was; from any index one advance sets it
\* to (index + 1) mod count.
C24_AdvanceWrapsInRange ==
    /\ [](\A count \in Counts \ {0} :
            state.current_index < count
               => AdvanceTimes(state, count, count).current_index
                     = state.current_index)
    /\ AdvanceIsSuccessor
\* The state is at the last of 3 descriptions with a deadline running: one
\* advance wraps to the first, three lead back to the last.
C24_Witness ==
    /\ state.current_index = 2
    /\ has_deadline(state)
    /\ state.current_duration_secs # None
    /\ advance(state, 3).current_index = 0
    /\ AdvanceTimes(state, 3, 3).current_index = 2
\* C25: is_expired holds exactly when there is no deadline or the time has
\* reached it, whatever the index, the pause flag and the override; after
\* set_deadline(d) with d > 0 it is false at once and at every time before d
\* seconds have passed, and true from then on.
C25_ExpiredIffDue ==
    /\ [](is_expired(state, now)
            <=> (\/ state.expires_at_unix = None
                 \/ now >= Unwrap(state.expires_at_unix)))
    /\ [][\A d \in Durations :
             SetDeadline(d)
                => (/\ \A t \in now..(now + d - 1) : ~is_expired(state', t)
                    /\ \A t \in (now + d)..(now + d + 1) : is_expired(state', t))]_vars
    /\ [][ClearDeadline => is_expired(state', now)]_vars
\* A deadline of 2 seconds was set a second ago on a paused state with an
\* override: the state is not expired yet.
C25_Witness ==
    /\ state.current_duration_secs = Some(2)
    /\ state.expires_at_unix = Some(now + 1)
    /\ state.is_paused
    /\ state.custom_description # None
    /\ ~is_expired(state, now)
\* C26: set_index(i) sets the index to i and leaves the state without
\* deadline, whatever the deadline was; the pause flag and the pending
\* override stay.
C26_SetIndexClearsDeadline ==
    [][\A i \in Indexes :
          SetIndex(i)
             => (/\ state'.current_index = i
                 /\ ~has_deadline(state')
                 /\ state'.is_paused = state.is_paused
                 /\ state'.custom_description = state.custom_description)]_vars
\* set_index(3) was called on a paused state with an override.
C26_Witness ==
    /\ state.current_index = 3
    /\ ~has_deadline(state)
    /\ state.current_duration_secs = None
    /\ state.is_paused
    /\ state.custom_description = Some("T1")
\* No call is recorded, or the last one is at least MinInterval old.
IntervalOver ==
    \/ last_operation = None
    \/ now - Unwrap(last_operation) >= MinInterval

\* C27: is_allowed answers true exactly when no call is recorded or
\* MinInterval has elapsed since the last one; time_until_allowed answers
\* zero exactly then, else MinInterval less the time elapsed; reset clears
\* the record, so that is_allowed is true at once.
C27_QueriesMatchRecord ==
    [][\A u \in Callers :
          /\ is_allowed(u) => (callers'[u].allowed <=> IntervalOver)
          /\ time_until_allowed(u)
                => (/\ callers'[u].remaining = 0 <=> IntervalOver
                    /\ ~IntervalOver
                          => callers'[u].remaining
                                = MinInterval - (now - Unwrap(last_operation)))
          /\ reset(u)
                => (/\ last_operation' = None
                    /\ allowed_at(last_operation', now)
                    /\ remaining_at(last_operation', now) = 0)]_vars
\* The caller was told "not allowed" and a full interval to wait, and then
\* reset the limiter within the interval.
C27_Witness ==
    /\ ~callers["u1"].allowed
    /\ callers["u1"].remaining = MinInterval
    /\ last_operation = None
    /\ now = 0
\* wait_and_acquire returns to caller u, at once or after its sleep.
AcquireReturns(u) == callers[u].pc # "acquired" /\ callers'[u].pc = "acquired"

\* C28: wait_and_acquire returns the time it waited: zero when no call is
\* recorded or MinInterval has elapsed, else MinInterval less the time
\* elapsed, never negative, and it sleeps that long; on return the time of
\* return is the recorded last call, so a call made right after one that
\* returned waits MinInterval.
C28_AcquireReturnsWait ==
    [][\A u \in Callers :
          /\ wait_and_acquire(u)
                => (/\ callers'[u].waited >= 0
                    /\ IntervalOver
                          => (callers'[u].waited = 0 /\ AcquireReturns(u))
                    /\ ~IntervalOver
                          => (/\ callers'[u].waited
                                    = MinInterval - (now - Unwrap(last_operation))
                              /\ callers'[u].pc = "sleep"
                              /\ callers'[u].wake = now + callers'[u].waited)
                    /\ last_operation = Some(now)
                          => callers'[u].waited = MinInterval)
          /\ wait_and_acquire_wake(u)
                => (/\ now >= callers[u].wake
                    /\ callers'[u].waited = callers[u].waited)
          /\ AcquireReturns(u) => last_operation' = Some(now)]_vars
\* The scheduler acquired; the caller asked right after, waited the whole
\* interval and has just returned.
C28_Witness ==
    /\ callers["u1"].pc = "acquired"
    /\ callers["u1"].waited = MinInterval
    /\ last_operation = Some(now)
    /\ now = MinInterval
    /\ rpc = "invoke"
\* handle_flood_wait is entered by the scheduler's update_bio or by a caller.
FloodWaitBegins(u) == callers[u].pc # "flood" /\ callers'[u].pc = "flood"
\* handle_flood_wait returns to a caller.
FloodWaitReturns(u) == callers[u].pc = "flood" /\ callers'[u].pc # "flood"
\* The limiter was used just now: is_allowed is false, and a wait_and_acquire
\* now would wait the whole interval.
JustUsed(last, t) ==
    /\ last = Some(t)
    /\ ~(t - Unwrap(last) >= MinInterval)
    /\ MinInterval - (t - Unwrap(last)) = MinInterval

\* C29: handle_flood_wait(N) returns no sooner than N seconds after it was
\* entered and marks the limiter as used at its return, so that is_allowed
\* is false then and the next wait_and_acquire waits MinInterval more; the
\* scheduler's cycle ends with the FloodWait failure and leaves the state
\* and the file as they were.
C29_FloodWaitMarksUsed ==
    [][/\ (rpc # "flood" /\ rpc' = "flood") => wake' - now \in FloodWaits
       /\ (rpc = "flood" /\ rpc' # "flood")
             => (/\ now >= wake
                 /\ JustUsed(last_operation', now)
                 /\ rpc' = "idle"
                 /\ outcome' = "FloodWait"
                 /\ state' = state
                 /\ file' = file)
       /\ \A u \in Callers :
             /\ FloodWaitBegins(u) => callers'[u].wake - now \in FloodWaits
             /\ FloodWaitReturns(u)
                   => (/\ now >= callers[u].wake
                       /\ JustUsed(last_operation', now))]_vars
\* The scheduler's call at time 0 was answered with a flood wait of a
\* second; the wait is over, the limiter is marked at time 1 and the cycle
\* has ended with the failure, the state untouched.
C29_Witness ==
    /\ rpc = "idle"
    /\ outcome = "FloodWait"
    /\ acquired = Some(0)
    /\ last_operation = Some(1)
    /\ now = 1
    /\ state.expires_at_unix = None
    /\ bio = None
\* The scheduler holds the state lock (read in step 2, write in step 4) and
\* waits for the config lock that command c holds for writing.
RunnerWaitsFor(c) == rpc \in {"decide", "commit2"} /\ cfgW = Some(c)
\* Command c holds the config write lock and waits for the state write lock.
WaitsForRunner(c) ==
    /\ tasks[c].pc = "reload_clamp"
    /\ cfgW = Some(c)
    /\ stateW = Some(Runner) \/ Runner \in stateR

\* C30: the scheduler's cycle and a command that takes both locks never each
\* wait for the lock the other holds.
C30_NoCircularWait ==
    \A c \in CmdTasks : ~(RunnerWaitsFor(c) /\ WaitsForRunner(c))
\* C31: after every commit of a regular (no override) update, whatever the
\* commands did between the cycle's decision and its commit, the description
\* at current_index is the one whose text the cycle applied and whose
\* duration made the new deadline.
C31_CommitIndexIsApplied ==
    [][(CommitStep /\ ~cand.has_custom)
          => (/\ state'.current_index < Len(config')
              /\ config'[state'.current_index + 1].text = cand.text
              /\ config'[state'.current_index + 1].text = Unwrap(bio)
              /\ state'.expires_at_unix
                    = Some(now + config'[state'.current_index + 1].duration_secs))]_vars
\* C32: a pending custom description leaves the state only by being applied:
\* when it is cleared, it is the text that was just made live; a set that
\* ran while the cycle applied an earlier one is still pending after the
\* commit.
C32_OverrideNotLost ==
    [][(/\ state.custom_description # None
        /\ state'.custom_description = None)
          => (CommitStep /\ bio = state.custom_description)]_vars
\* C33: a goto completes without panicking and leaves current_index within
\* the list as it is then, whatever delete or reload did to the list between
\* the resolution of the target and the write of the state.
C33_GotoStaysInRange ==
    [][\A c \in CmdTasks :
          handle_goto_read(c)
             => (/\ tasks'[c].pc = "idle"
                 /\ state'.current_index < Len(config'))]_vars
\* C34: a pause that lands between a cycle's snapshot and its commit does not
\* stop the cycle: the commit clears the applied custom description or
\* advances the index as decided, sets the deadline from the decided
\* duration, and leaves is_paused true; a cycle that starts while the state
\* is paused ends at its check or its re-check, before any external call.
C34_PauseWaitsForNextCycle ==
    [][/\ (CommitStep /\ state.is_paused)
            => (/\ state'.is_paused
                /\ state'.expires_at_unix = Some(now + cand.duration_secs)
                /\ state'.custom_description
                      = (IF cand.has_custom THEN None ELSE state.custom_description)
                /\ state'.current_index
                      = (IF ~cand.has_custom /\ cand.should_advance
                         THEN (state.current_index + 1) % Len(config)
                         ELSE state.current_index))
       /\ ((CheckStep \/ DecideStep) /\ state.is_paused)
            => (rpc' = "idle" /\ bio' = bio /\ state' = state)]_vars
\* The external call has succeeded and the cycle holds the state lock for its
\* commit, the state having been paused since the snapshot.
C34_Witness ==
    /\ rpc = "commit2"
    /\ stateW = Some(Runner)
    /\ state.is_paused
    /\ bio = Some(cand.text)
\* C35: the scheduler task makes its external calls one at a time and one per
\* cycle: a cycle begins, and a message is taken from the channel, only when
\* no cycle is under way, and within a cycle the request is sent only once,
\* after the one authorization check and the one pass through the limiter;
\* after its answer the cycle ends without a second request.
C35_OneCallPerCycle ==
    [][/\ (rpc' = "check" /\ rpc # "check") => rpc = "idle"
       /\ Len(inbox') < Len(inbox) => rpc = "idle"
       /\ (rpc' = "auth" /\ rpc # "auth") => rpc = "decide"
       /\ (rpc' = "acquire" /\ rpc # "acquire") => rpc = "auth"
       /\ (rpc' = "invoke" /\ rpc # "invoke") => rpc \in {"acquire", "sleep"}
       /\ (rpc = "invoke" /\ rpc' # "invoke")
             => rpc' \in {"commit", "idle", "flood"}
       /\ (rpc \in {"flood", "commit", "commit2"} /\ rpc' # rpc)
             => rpc' \in {"idle", "commit2"}]_vars
\* A TriggerUpdate waits in the channel while the request of the running
\* cycle is in flight.
C35_Witness ==
    /\ rpc = "invoke"
    /\ inbox # <<>>
    /\ Head(inbox) = "TriggerUpdate"
\* C36: a cycle that finds the state unpaused and due but the list empty
\* ends at its decision: no external call, the state, the live text and the
\* file as they were, also when a custom description is pending; the task is
\* back at the head of its loop.
C36_EmptyListSkipsCycle ==
    [][(/\ DecideStep
        /\ config = <<>>
        /\ ~state.is_paused
        /\ is_expired(state, now))
          => (/\ rpc' = "idle"
              /\ outcome' = "empty"
              /\ state' = state
              /\ bio' = bio
              /\ file' = file
              /\ last_operation' = last_operation)]_vars
\* A cycle has ended on the empty list with the custom description still
\* pending.
C36_Witness ==
    /\ rpc = "idle"
    /\ outcome = "empty"
    /\ config = <<>>
    /\ state.custom_description # None
    /\ ~state.is_paused
\* The decision was taken without advance on an index outside the list.
FellBack ==
    /\ cand.go
    /\ ~cand.has_custom
    /\ ~cand.should_advance
    /\ cand.snap_index >= Len(cand.snap_config)

\* C37: a due cycle without advance whose current_index is outside the
\* non-empty list goes on to the update with the first description: its text
\* is what the call applies and its duration makes the deadline of the
\* commit; the task does not leave its loop.
C37_OutOfRangeFallsBack ==
    [][/\ (/\ DecideStep
            /\ ~state.is_paused
            /\ is_expired(state, now)
            /\ state.custom_description = None
            /\ ~has_deadline(state)
            /\ config # <<>>
            /\ state.current_index >= Len(config))
          => (/\ rpc' = "auth"
              /\ cand'.text = config[1].text
              /\ cand'.duration_secs = config[1].duration_secs
              /\ ~cand'.should_advance)
       /\ (InvokeOkStep /\ FellBack)
          => bio' = Some(cand.snap_config[1].text)
       /\ (CommitStep /\ FellBack)
          => state'.expires_at_unix
                = Some(now + cand.snap_config[1].duration_secs)]_vars
\* A cycle that found index 2 in a list of two has applied A and committed.
C37_Witness ==
    /\ rpc = "idle"
    /\ outcome = "updated"
    /\ bio = Some("A")
    /\ Len(config) = 2
    /\ state.current_index = 2
    /\ state.expires_at_unix = Some(now + DescA.duration_secs)

\* C38 as stated: a delete at position d that runs alone leaves current_index
\* one lower when d was below it, unchanged when d was above it, within the
\* new list when d was at it, and 0 when the list is left empty.
C38_DeleteAdjustsIndex ==
    [][\A c \in CmdTasks :
          DeleteCompletes(c)
             => (/\ (tasks[c].idx < state.current_index /\ config # <<>>)
                       => state'.current_index = state.current_index - 1
                 /\ (tasks[c].idx > state.current_index /\ config # <<>>)
                       => state'.current_index = state.current_index
                 /\ (tasks[c].idx = state.current_index /\ config # <<>>)
                       => state'.current_index < Len(config)
                 /\ config = <<>> => state'.current_index = 0)]_vars
\* C39: pause on a paused state, resume on a running one and skip on a paused
\* one are refused and leave the state as it was; a pause or a resume that
\* succeeds changes is_paused and nothing else.
C39_RefusedCommandsChangeNothing ==
    [][\A c \in CmdTasks :
          /\ (handle_pause(c) /\ state.is_paused)
                => (~PauseOk(state) /\ state' = state)
          /\ (handle_resume(c) /\ ~state.is_paused)
                => (~ResumeOk(state) /\ state' = state)
          /\ (handle_skip(c) /\ state.is_paused)
                => (~SkipOk(state) /\ state' = state)
          /\ (handle_pause(c) /\ ~state.is_paused)
                => (PauseOk(state) /\ state' = [state EXCEPT !.is_paused = TRUE])
          /\ (handle_resume(c) /\ state.is_paused)
                => (ResumeOk(state) /\ state' = [state EXCEPT !.is_paused = FALSE])]_vars
\* A process that started paused has taken one command, a resume: the state
\* is the loaded one but for is_paused.
C39_Witness ==
    /\ file # None
    /\ load(file).is_paused
    /\ ncmds = 1
    /\ \A c \in CmdTasks : tasks[c].pc = "idle"
    /\ state = [from_persistent(load(file)) EXCEPT !.is_paused = FALSE]
\* C40: when the write of the descriptions file fails in edit, duration or
\* delete, the list in memory is again the one the command found, the
\* command ends there (delete makes no index adjustment) and the scheduler
\* state is as it was.
C40_FailedWriteRestoresList ==
    [][\A c \in CmdTasks :
          /\ handle_edit_save(c, FALSE)
                => (/\ config' = tasks[c].new_config
                    /\ tasks'[c].pc = "idle"
                    /\ state' = state)
          /\ handle_duration_save(c, FALSE)
                => (/\ config' = tasks[c].new_config
                    /\ tasks'[c].pc = "idle"
                    /\ state' = state)
          /\ (\E id \in DeleteIds : handle_delete_remove(c, id, FALSE))
                => (/\ config' = config
                    /\ tasks'[c].pc = "idle"
                    /\ state' = state)]_vars
\* An edit has written the new text into the list and is about to save it.
C40_Witness ==
    \E c \in CmdTasks :
        /\ tasks[c].pc = "edit_save"
        /\ cfgW = Some(c)
        /\ config # tasks[c].new_config
        /\ cfgFile = tasks[c].new_config
====
